---- MODULE Spec2Model ----
(***************************************************************************)
(* Model of auto-linkedin: the LinkedInController (authentication check    *)
(* and posting flow, src/auto_linkedin/browser/linkedin_controller.py),    *)
(* the PostScheduler (src/auto_linkedin/scheduler.py) and the Config store *)
(* (src/auto_linkedin/utils/config.py).                                    *)
(*                                                                         *)
(* Specifications:                                                         *)
(*   Spec      the scheduler, its pacing threads and the clock             *)
(*   SpecUi    the scheduler, its pacing threads, the UI thread's          *)
(*             controller calls and the site                               *)
(*   SpecGate  every call of post_to_linkedin, by the pacing thread and by *)
(*             the UI thread, and the site                                 *)
(*   SpecSched the scheduler with a controller whose post_to_linkedin call *)
(*             returns any of its results                                  *)
(*   SpecPrompt  _prompt_login, one step per check, and the site           *)
(*   SpecAuth  _check_login_status as a function of the page state         *)
(*   SpecFlow  _post_to_linkedin, one step per browser interaction         *)
(*   SpecPace  the jittered due interval as a function of base and jitter  *)
(*   SpecSession  the browser session of the controller: launch, lock      *)
(*             cleanup, close, and the results of the public calls         *)
(*   SpecConfig  the Config store and its file                             *)
(*   SpecQueue  two pacing threads taking posts from the queue, the loop   *)
(*             body in two steps                                           *)
(*   SpecLive  the scheduler while it stays running, under fairness        *)
(***************************************************************************)
EXTENDS Integers, Sequences, FiniteSets, TLC

VARIABLES
    \* ---- page state seen by the controller (environment) ----
    page,
    start_post_button,  \* the feed page offers the 'Start a post' affordance
    \* ---- SpecAuth: verdicts of the consecutive checks of the current page
    checks,
    \* ---- LinkedInController ----
    is_initialized,
    \* ---- PostScheduler ----
    posts_queue,        \* queue.Queue: ids of the queued posts, head first
    unfinished_tasks,   \* the unfinished_tasks counter of the current Queue object
    stop_event,         \* threading.Event
    is_running,
    last_post_time,     \* NoTime or the clock value of the last dequeue
    schedule_thread,    \* the Thread start() created last, 0 for None
    thread,             \* position of every pacing thread ever created
    local,              \* post_data and current_time of the tick a thread is in
    post_data,          \* the post dictionaries handed to add_post
    gate,               \* verdict of the login check of the last post_to_linkedin call
    \* ---- Config ----
    config,
    \* ---- callers and environment ----
    ui,                 \* the UI (main) thread: idle, joining in stop(), or in a controller call
    ret,                \* the value the last scheduler call returned
    now,                \* the wall clock, in minutes
    \* ---- SpecFlow: one run of _post_to_linkedin ----
    fpc,                \* "step", "chain", "chain_end" or "done"
    fstep,              \* the step the flow is at
    chain,              \* the chain the flow is in or was in last
    attempts,           \* the strategies of that chain attempted so far
    strategyUsed,       \* the strategy of that chain that hit, 0 for none
    outcome,            \* outcome of the last attempt
    reported,           \* "not_found" once the chain gave up
    media_files,        \* number of media files of the post
    upload_confirmed,
    fresult,            \* the result _post_to_linkedin returned
    ran,                \* the steps and chains the run went through, in order, each with its outcome
    success_marker,     \* the page shows a success marker after the submission
    \* ---- SpecPace: the due interval computed last ----
    interval,
    \* ---- SpecPrompt: one run of _prompt_login ----
    prompt,
    \* ---- SpecSession: the browser session of the controller ----
    browser_context,    \* 0 for None, or the context launch_persistent_context returned
    page_handle,        \* self.page: 0 for None, or the context the page belongs to
    playwright,         \* self.playwright is set
    live_contexts,      \* the browser contexts that were launched and are not closed
    launches,           \* calls of launch_persistent_context that returned a context
    lock_files,         \* the lock artifacts in the profile directory
    at_launch,          \* the lock artifacts that existed when the last launch was invoked
    returned,           \* the result the last controller call returned
    \* ---- SpecConfig: the configuration file ----
    config_file

pageVars == <<page, start_post_button>>
authVars == <<checks>>
ctrlVars == <<is_initialized>>
schedVars ==
    <<posts_queue, unfinished_tasks, stop_event, is_running, last_post_time,
      schedule_thread, thread, local, post_data, gate, config, ui, ret, now>>
flowVars ==
    <<fpc, fstep, chain, attempts, strategyUsed, outcome, reported, media_files,
      upload_confirmed, fresult, ran, success_marker>>
paceVars == <<interval>>
promptVars == <<prompt>>
sessionVars ==
    <<browser_context, page_handle, playwright, live_contexts, launches, lock_files,
      at_launch, returned>>
storeVars == <<config_file>>

\* ------------------------------------------------------------------------
\* Bounds of the model
\* ------------------------------------------------------------------------

\* number of security phrases the page text is drawn from (the code has 11)
MaxPhrase == 1

\* posts handed to add_post, pacing threads created, advances of the wall clock
MaxPosts == 2
MaxWorkers == 2
MaxAdvances == 2

\* media files of a post, base intervals of the configuration
MaxMedia == 1
MaxBase == 12

\* browser contexts one controller launches
MaxLaunches == 2

\* entries of the history and of the error log
MaxHistory == 2

\* the floor of the due interval, in minutes; the model's clock advances by it
MinIntervalMinutes == 5

\* lengths of the post texts handed to add_post (0: the empty text)
Texts == {0, 5}

\* values of posting_interval_minutes found in the configuration file
Intervals == {1, 10}

\* ------------------------------------------------------------------------
\* Page state: the signals the two page.evaluate scripts read
\* ------------------------------------------------------------------------

\* the keys of the navCheck object, linkedin_controller.py:341-359
NavKeys ==
    {"hasProfilePhoto", "hasProfileMenu", "hasNavMenu", "hasMyNetwork",
     "hasJobs", "hasMessaging", "hasFeed", "hasPostBox"}

\* the profile affordance and primary-nav section markers among NavKeys
NavChromeKeys ==
    {"hasProfilePhoto", "hasProfileMenu", "hasNavMenu", "hasMyNetwork",
     "hasJobs", "hasMessaging"}

UrlHome == "https://www.linkedin.com/"
UrlFeed == "https://www.linkedin.com/feed/"
UrlLogin == "https://www.linkedin.com/login"
UrlCheckpoint == "https://www.linkedin.com/checkpoint/challenge"
UrlCheckpointLogin == "https://www.linkedin.com/checkpoint/lg/login-submit"
UrlProfile == "https://www.linkedin.com/in/me/"

Urls == {UrlHome, UrlFeed, UrlLogin, UrlCheckpoint, UrlCheckpointLogin, UrlProfile}

\* window.location.href.includes('/login')
isLoginPage(url) == url \in {UrlLogin, UrlCheckpointLogin}

\* window.location.href.includes('/checkpoint')
isCheckpoint(url) == url \in {UrlCheckpoint, UrlCheckpointLogin}

\* href.includes('linkedin.com/feed') || href === 'https://www.linkedin.com/'
isHomePage(url) == url \in {UrlFeed, UrlHome}

\* A page: what the browser shows after page.goto("https://www.linkedin.com/").
\*   loads            the navigation completes within its 15 s timeout
\*   navCheck         which of the eight navCheck selectors match
\*   url              window.location.href
\*   hasLoginForm     #username, input[name="session_key"] or .login__form
\*   hasWelcomeText   body text includes one of the four greetings
\*   securityElement  one of the twelve securityElements is non-null
\*   phrase           index of the first securityPhrases entry the lower-cased
\*                    body text includes, 0 when it includes none
Pages ==
    [loads : BOOLEAN,
     navCheck : [NavKeys -> BOOLEAN],
     url : Urls,
     hasLoginForm : BOOLEAN,
     hasWelcomeText : BOOLEAN,
     securityElement : BOOLEAN,
     phrase : 0..MaxPhrase]

\* ------------------------------------------------------------------------
\* LinkedInController: authentication check
\* ------------------------------------------------------------------------

MsgSecurityDefault == "Security challenge detected"
MsgSecurityAlert == "LinkedIn security alert"
MsgLoggedIn == "User is logged in to LinkedIn"
MsgLoggedOut == "User is not logged in to LinkedIn"
MsgCheckError == "Error checking login status"
ErrNone == "none"
ErrSecurityChallenge == "security_challenge"
ErrException == "exception"

\* random.randint(min_delay, max_delay): the bounds and the midpoint
_wait_for_human_delay(min_delay, max_delay) ==
    {min_delay, (min_delay + max_delay) \div 2, max_delay}

_detect_security_challenges(p) ==
    [hasSecurityChallenge |-> p.securityElement \/ p.phrase # 0,
     message |-> IF p.phrase # 0 THEN <<MsgSecurityAlert, p.phrase>>
                 ELSE IF p.securityElement THEN <<MsgSecurityDefault>>
                 ELSE <<>>]

\* navTrueCount counting the profile and navigation markers only
navTrueCount_chrome_only(p) == Cardinality({k \in NavChromeKeys : p.navCheck[k]})

\* Object.values(navCheck).filter(Boolean).length
navTrueCount(p) == Cardinality({k \in NavKeys : p.navCheck[k]})

\* the isLoggedIn expression of the page script
isLoggedIn(p) ==
    \/ /\ navTrueCount(p) >= 3
       /\ ~isLoginPage(p.url)
       /\ ~isCheckpoint(p.url)
       /\ ~p.hasLoginForm
    \/ /\ isHomePage(p.url)
       /\ p.hasWelcomeText
       /\ ~p.hasLoginForm

\* _check_login_status testing the login heuristics before the challenge
_check_login_status_heuristics_first(p, delay) ==
    IF ~p.loads
    THEN [isLoggedIn |-> FALSE, error |-> ErrException, message |-> <<MsgCheckError>>]
    ELSE IF isLoggedIn(p)
    THEN [isLoggedIn |-> TRUE, error |-> ErrNone, message |-> <<MsgLoggedIn>>]
    ELSE IF _detect_security_challenges(p).hasSecurityChallenge
    THEN [isLoggedIn |-> FALSE, error |-> ErrSecurityChallenge,
          message |-> <<MsgSecurityDefault>>]
    ELSE [isLoggedIn |-> FALSE, error |-> ErrNone, message |-> <<MsgLoggedOut>>]

\* _check_login_status reading the page before it has settled when the delay
\* is the shortest one
_check_login_status_unsettled(p, delay) ==
    IF ~p.loads
    THEN [isLoggedIn |-> FALSE, error |-> ErrException, message |-> <<MsgCheckError>>]
    ELSE IF _detect_security_challenges(p).hasSecurityChallenge
    THEN [isLoggedIn |-> FALSE, error |-> ErrSecurityChallenge,
          message |-> <<MsgSecurityDefault>>]
    ELSE IF delay > 2000 /\ isLoggedIn(p)
    THEN [isLoggedIn |-> TRUE, error |-> ErrNone, message |-> <<MsgLoggedIn>>]
    ELSE [isLoggedIn |-> FALSE, error |-> ErrNone, message |-> <<MsgLoggedOut>>]

\* the verdict is computed after the random delay has elapsed
_check_login_status(p, delay) ==
    IF ~p.loads
    THEN [isLoggedIn |-> FALSE, error |-> ErrException, message |-> <<MsgCheckError>>]
    ELSE LET security_check == _detect_security_challenges(p) IN
         IF security_check.hasSecurityChallenge
         THEN [isLoggedIn |-> FALSE, error |-> ErrSecurityChallenge,
               message |-> IF security_check.message # <<>>
                           THEN security_check.message ELSE <<MsgSecurityDefault>>]
         ELSE [isLoggedIn |-> isLoggedIn(p), error |-> ErrNone,
               message |-> IF isLoggedIn(p) THEN <<MsgLoggedIn>> ELSE <<MsgLoggedOut>>]

\* ------------------------------------------------------------------------
\* Config (utils/config.py)
\* ------------------------------------------------------------------------

\* Config.get(key, default) on the loaded configuration
Config_get(cfg, key) == cfg[key]

\* Config.add_to_history(post, status): appends one history item and saves
add_to_history(cfg, post, status) ==
    [cfg EXCEPT !.history = Append(@, [text |-> post.text, status |-> status])]

\* Config.add_error(message): appends one error item and saves
add_error(cfg, message) ==
    [cfg EXCEPT !.errors = Append(@, [message |-> message])]

\* the keys of the configuration the model follows
ConfigKeys == {"posting_interval_minutes", "history", "errors"}

\* self.defaults
defaults == [posting_interval_minutes |-> 60, history |-> <<>>, errors |-> <<>>]

\* json.dump: an integer is written as a JSON number, a list as a JSON array
json_dump(cfg) ==
    [posting_interval_minutes |-> <<"number", cfg.posting_interval_minutes>>,
     history |-> <<"array", cfg.history>>,
     errors |-> <<"array", cfg.errors>>]

\* json.load: a JSON number is read as an integer, a JSON array as a list
json_load(text) ==
    [posting_interval_minutes |-> text.posting_interval_minutes[2],
     history |-> text.history[2],
     errors |-> text.errors[2]]

\* the configuration file: missing, unparsable, or a JSON object with some
\* of the keys
NoFile == [state |-> "missing", keys |-> {}, text |-> json_dump(defaults)]

\* the ways a write of the file ends: written; open() raised and the file is
\* as it was; the file was truncated by open() and the write raised
SaveOutcomes == {"ok", "open_raises", "write_raises"}

\* Config.save_config: the file after the call
save_config(cfg, file, written) ==
    CASE written = "ok" -> [state |-> "ok", keys |-> ConfigKeys, text |-> json_dump(cfg)]
      [] written = "open_raises" -> file
      [] OTHER -> [NoFile EXCEPT !.state = "corrupt"]

\* the file written from cfg
Saved(cfg) == save_config(cfg, NoFile, "ok")

\* a load that takes the whole document of the file for the configuration
load_config_replace(file) ==
    IF file.state = "ok" THEN json_load(file.text) ELSE defaults

\* Config.load_config: the defaults, updated with the keys of the file when
\* the file exists and parses
load_config(file) ==
    LET file_config == json_load(file.text)
        value(key) == IF file.state = "ok" /\ key \in file.keys
                      THEN file_config[key] ELSE defaults[key]
    IN  [posting_interval_minutes |-> value("posting_interval_minutes"),
         history |-> value("history"),
         errors |-> value("errors")]

\* Config.set(key, value), Config.clear_history(), Config.clear_errors(): the
\* configuration in memory after the call
Config_set(cfg, key, value) == [cfg EXCEPT ![key] = value]
\* a clear_history that empties the error log as well
clear_history_all(cfg) == [cfg EXCEPT !.history = <<>>, !.errors = <<>>]

clear_history(cfg) == [cfg EXCEPT !.history = <<>>]
clear_errors(cfg) == [cfg EXCEPT !.errors = <<>>]

\* ------------------------------------------------------------------------
\* LinkedInController: the public posting call
\* ------------------------------------------------------------------------

MsgNotLoggedIn == "Not logged in to LinkedIn. Please log in before posting."
MsgComposerNotFound == "Could not find 'Start a post' button. LinkedIn may have updated their interface."
MsgComposerSurface == "Could not find post composer. Please try again."
MsgTextInputNotFound == "Could not find text input field. Please try again."
MsgSubmitNotFound == "Could not find the 'Post' button to submit your post."
MsgPosted == "Successfully posted to LinkedIn"
MsgPostError == "Error posting to LinkedIn"
MsgEmptyText == "Empty post text"
MsgUnknown == "Unknown error"

Result(success, message) == [success |-> success, message |-> message]

\* no result: _post_to_linkedin was not run
NoResult == [success |-> FALSE, message |-> ""]

\* the results _post_to_linkedin returns on a feed page that offers the
\* 'Start a post' affordance (present) or does not
PostFlowResults(present) ==
    IF present
    THEN {Result(TRUE, MsgPosted),
          Result(FALSE, MsgComposerSurface),
          Result(FALSE, MsgTextInputNotFound),
          Result(FALSE, MsgSubmitNotFound),
          Result(FALSE, MsgPostError)}
    ELSE {Result(FALSE, MsgComposerNotFound),
          Result(FALSE, MsgPostError)}

\* the thread that runs the application and its UI; the pacing threads are
\* numbered from 1
MainThread == 0

\* _run_async(coro) called in thread t: TRUE when the coroutine is run.
\* asyncio.get_event_loop() gives the main thread its event loop (created on
\* first use) and raises RuntimeError "There is no current event loop in
\* thread ..." in every other thread, for which the program never sets a loop
_run_async(t) == t = MainThread

\* the controller has a browser after "if not self.is_initialized:
\* self._run_async(self._init_browser())" in thread t; launched tells whether
\* the launch succeeds
BrowserReady(t, initialized, launched) ==
    _run_async(t) /\ (initialized \/ launched)

\* is_initialized after a call of check_login_status, prompt_login or
\* post_to_linkedin in thread t
InitializedAfter(t, initialized, launched) ==
    IF _run_async(t) THEN initialized \/ launched ELSE initialized

\* check_login_status() called in thread t: the verdict of the check, or the
\* result of the except clause when _run_async or the launch raised
check_login_status(t, initialized, launched, p, delay) ==
    IF BrowserReady(t, initialized, launched)
    THEN _check_login_status(p, delay)
    ELSE [isLoggedIn |-> FALSE, error |-> ErrException, message |-> <<MsgCheckError>>]

\* post_to_linkedin running the flow without the login gate
FlowRun_no_gate(t, initialized, launched, login_status) ==
    BrowserReady(t, initialized, launched)

\* post_to_linkedin called in thread t runs _post_to_linkedin: the browser is
\* there and the login check made just before (lines 86-93) said logged in
FlowRun(t, initialized, launched, login_status) ==
    /\ BrowserReady(t, initialized, launched)
    /\ login_status.isLoggedIn

\* post_to_linkedin(text, media_files) called in thread t: the result of the
\* except clause when _run_async or the launch raised, else the login gate,
\* then the flow. flow is the result _post_to_linkedin returns if it is run.
post_to_linkedin(t, initialized, launched, login_status, flow) ==
    IF ~BrowserReady(t, initialized, launched)
    THEN Result(FALSE, MsgPostError)
    ELSE IF FlowRun(t, initialized, launched, login_status)
    THEN flow
    ELSE Result(FALSE, MsgNotLoggedIn)

\* ------------------------------------------------------------------------
\* PostScheduler (scheduler.py)
\* ------------------------------------------------------------------------

NoTime == -1
NoInterval == [by |-> "", factor |-> 0, minutes |-> 0, next_post_time |-> 0]
NoVerdict == [isLoggedIn |-> FALSE, error |-> "not_checked", message |-> <<>>]
NoPost == 0
Workers == 1..MaxWorkers
PostIds == 1..MaxPosts

\* jitter factors in thousandths: random.uniform(0.9, 1.1), its two ends and
\* the middle
Jitters == {900, 1000, 1100}

Max(a, b) == IF a >= b THEN a ELSE b

\* the due interval without its floor
actual_interval_minutes_no_floor(post_interval_minutes, variation_factor) ==
    post_interval_minutes * variation_factor

\* max(5, post_interval_minutes * variation_factor), in thousandths of a minute
actual_interval_minutes(post_interval_minutes, variation_factor) ==
    Max(MinIntervalMinutes * 1000, post_interval_minutes * variation_factor)

\* a due test that passes for the first post only
IsDue_first_only(current_time, last, actual) ==
    last = NoTime

\* last_post_time is None or current_time - last_post_time > timedelta(minutes=actual)
IsDue(current_time, last, actual) ==
    \/ last = NoTime
    \/ (current_time - last) * 1000 > actual

\* number of pacing threads created so far
Spawned == Cardinality({w \in Workers : thread[w] # "unborn"})

\* the threads that are alive
Alive == {w \in Workers : thread[w] \notin {"unborn", "dead"}}

\* the posts between get_nowait and the end of _process_post
InFlight == {local[w].post : w \in {x \in Workers : thread[x] = "in_post"}}

\* _add_to_history: builds the history entry and calls config.add_to_history
\* with that one argument; add_to_history takes (post, status), the call raises
\* TypeError, which the except clause at scheduler.py:288 logs
add_to_history_params == 2

_add_to_history(cfg, pd) ==
    LET args == <<[text |-> pd.text, status |-> "published"]>>
    IN  IF Len(args) = add_to_history_params
        THEN add_to_history(cfg, args[1], args[2])
        ELSE cfg

\* a result handling that gives a failed post the status queued again
_process_post_result_reopens(pd, result) ==
    [pd EXCEPT !.status = IF result.success THEN "completed" ELSE "queued",
               !.result = result.message,
               !.error = IF result.success THEN @ ELSE result.message]

\* the part of _process_post after post_to_linkedin returned
_process_post_result(pd, result) ==
    [pd EXCEPT !.status = IF result.success THEN "completed" ELSE "error",
               !.result = result.message,
               !.error = IF result.success THEN @ ELSE result.message]

_process_post_config(cfg, pd, result) ==
    IF result.success
    THEN _add_to_history(cfg, pd)
    ELSE add_error(cfg, [error |-> result.message, post_text |-> pd.text])

\* Queue.task_done(): ValueError when called more often than items were put
task_done_raises == unfinished_tasks = 0

\* start(): the part after the is_running test
start_thread ==
    LET w == Spawned + 1 IN
    /\ stop_event' = FALSE
    /\ thread' = [thread EXCEPT ![w] = "sleep"]
    /\ schedule_thread' = w
    /\ is_running' = TRUE

\* start() spawning a thread whether or not the scheduler is running
start_always ==
    /\ ui.pc = "idle"
    /\ Spawned < MaxWorkers
    /\ start_thread
    /\ ret' = TRUE
    /\ UNCHANGED <<posts_queue, unfinished_tasks, last_post_time, local, post_data,
                   gate, config, ui, now>>
    /\ UNCHANGED <<pageVars, authVars, ctrlVars, flowVars, paceVars, promptVars,
                   sessionVars, storeVars>>

start ==
    /\ ui.pc = "idle"
    /\ IF is_running
       THEN /\ ret' = FALSE
            /\ UNCHANGED <<stop_event, thread, schedule_thread, is_running>>
       ELSE /\ Spawned < MaxWorkers
            /\ start_thread
            /\ ret' = TRUE
    /\ UNCHANGED <<posts_queue, unfinished_tasks, last_post_time, local, post_data,
                   gate, config, ui, now>>
    /\ UNCHANGED <<pageVars, authVars, ctrlVars, flowVars, paceVars, promptVars,
                   sessionVars, storeVars>>

\* add_post without the start of a stopped scheduler
add_post_no_start ==
    \E text \in Texts :
        LET id == Cardinality({i \in PostIds : post_data[i].status # "none"}) + 1 IN
        /\ ui.pc = "idle"
        /\ id <= MaxPosts
        /\ post_data' = [post_data EXCEPT ![id] =
                            [text |-> text, status |-> "queued",
                             error |-> "", result |-> "", posted |-> 0]]
        /\ posts_queue' = Append(posts_queue, id)
        /\ unfinished_tasks' = unfinished_tasks + 1
        /\ ret' = TRUE
        /\ UNCHANGED <<stop_event, thread, schedule_thread, is_running>>
        /\ UNCHANGED <<last_post_time, local, gate, config, ui, now>>
        /\ UNCHANGED <<pageVars, authVars, ctrlVars, flowVars, paceVars, promptVars,
                   sessionVars, storeVars>>

add_post ==
    \E text \in Texts :
        LET id == Cardinality({i \in PostIds : post_data[i].status # "none"}) + 1 IN
        /\ ui.pc = "idle"
        /\ id <= MaxPosts
        /\ post_data' = [post_data EXCEPT ![id] =
                            [text |-> text, status |-> "queued",
                             error |-> "", result |-> "", posted |-> 0]]
        /\ posts_queue' = Append(posts_queue, id)
        /\ unfinished_tasks' = unfinished_tasks + 1
        /\ IF ~is_running
           THEN /\ Spawned < MaxWorkers
                /\ start_thread
           ELSE UNCHANGED <<stop_event, thread, schedule_thread, is_running>>
        /\ ret' = TRUE
        /\ UNCHANGED <<last_post_time, local, gate, config, ui, now>>
        /\ UNCHANGED <<pageVars, authVars, ctrlVars, flowVars, paceVars, promptVars,
                   sessionVars, storeVars>>

\* stop() up to the join: returns at once when not running
stop ==
    /\ ui.pc = "idle"
    /\ IF ~is_running
       THEN /\ ret' = FALSE
            /\ UNCHANGED <<stop_event, ui>>
       ELSE /\ stop_event' = TRUE
            /\ ui' = [pc |-> "join", op |-> "stop"]
            /\ UNCHANGED ret
    /\ UNCHANGED <<posts_queue, unfinished_tasks, is_running, last_post_time,
                   schedule_thread, thread, local, post_data, gate, config, now>>
    /\ UNCHANGED <<pageVars, authVars, ctrlVars, flowVars, paceVars, promptVars,
                   sessionVars, storeVars>>

\* stop() from the join on: the thread has ended, or the 3 s timeout expired
\* because the thread is inside _process_post (its status callback, its
\* controller calls and the save of the configuration take as long as they
\* take); the sleeps of the loop end within the timeout once stop_event is set
stop_join ==
    /\ ui.pc = "join"
    /\ thread[schedule_thread] \in {"dead", "in_post"}
    /\ is_running' = FALSE
    /\ ui' = [pc |-> "idle", op |-> ""]
    /\ ret' = TRUE
    /\ UNCHANGED <<posts_queue, unfinished_tasks, stop_event, last_post_time,
                   schedule_thread, thread, local, post_data, gate, config, now>>
    /\ UNCHANGED <<pageVars, authVars, ctrlVars, flowVars, paceVars, promptVars,
                   sessionVars, storeVars>>

clear_queue ==
    /\ ui.pc = "idle"
    /\ posts_queue' = <<>>
    /\ unfinished_tasks' = 0
    /\ ret' = TRUE
    /\ UNCHANGED <<stop_event, is_running, last_post_time, schedule_thread, thread,
                   local, post_data, gate, config, ui, now>>
    /\ UNCHANGED <<pageVars, authVars, ctrlVars, flowVars, paceVars, promptVars,
                   sessionVars, storeVars>>

\* the end of the loop body with the worker ending when task_done raises
FinishTick_raise_ends(w, current_time) ==
    /\ last_post_time' = current_time
    /\ IF task_done_raises
       THEN /\ thread' = [thread EXCEPT ![w] = "dead"]
            /\ UNCHANGED unfinished_tasks
       ELSE /\ thread' = [thread EXCEPT ![w] = "wait"]
            /\ unfinished_tasks' = unfinished_tasks - 1

\* the end of the loop body with last_post_time left as it was
FinishTick_keep_time(w, current_time) ==
    /\ UNCHANGED last_post_time
    /\ IF task_done_raises
       THEN /\ thread' = [thread EXCEPT ![w] = "backoff"]
            /\ UNCHANGED unfinished_tasks
       ELSE /\ thread' = [thread EXCEPT ![w] = "wait"]
            /\ unfinished_tasks' = unfinished_tasks - 1

\* the statements of the loop body after _process_post returned:
\* last_post_time, task_done, then _update_status and the 10 s wait, or the
\* except clause and its 30 s wait when task_done raised
FinishTick(w, current_time) ==
    /\ last_post_time' = current_time
    /\ IF task_done_raises
       THEN /\ thread' = [thread EXCEPT ![w] = "backoff"]
            /\ UNCHANGED unfinished_tasks
       ELSE /\ thread' = [thread EXCEPT ![w] = "wait"]
            /\ unfinished_tasks' = unfinished_tasks - 1

\* one evaluation of the while condition and the loop body up to the first
\* blocking call: the end of the thread, an idle tick, a post with empty text
\* (processed at once), or the start of _process_post for a post with text
_scheduler_loop(w) ==
    /\ thread[w] \in {"sleep", "wait", "backoff"}
    /\ IF stop_event
       THEN /\ thread' = [thread EXCEPT ![w] = "dead"]
            /\ UNCHANGED <<posts_queue, unfinished_tasks, last_post_time, local, post_data>>
       ELSE \E variation_factor \in Jitters :
            LET actual == actual_interval_minutes(
                              Config_get(config, "posting_interval_minutes"),
                              variation_factor)
                current_time == now
            IN  IF IsDue(current_time, last_post_time, actual) /\ posts_queue # <<>>
                THEN LET id == Head(posts_queue) IN
                     /\ posts_queue' = Tail(posts_queue)
                     /\ IF post_data[id].text = 0
                        THEN /\ post_data' = [post_data EXCEPT ![id].status = "error",
                                                               ![id].error = MsgEmptyText]
                             /\ FinishTick(w, current_time)
                             /\ UNCHANGED local
                        ELSE /\ post_data' = [post_data EXCEPT ![id].status = "processing"]
                             /\ thread' = [thread EXCEPT ![w] = "in_post"]
                             /\ local' = [local EXCEPT ![w] =
                                             [post |-> id, current_time |-> current_time]]
                             /\ UNCHANGED <<unfinished_tasks, last_post_time>>
                ELSE /\ thread' = [thread EXCEPT ![w] = "wait"]
                     /\ UNCHANGED <<posts_queue, unfinished_tasks, last_post_time,
                                    local, post_data>>
    /\ UNCHANGED <<stop_event, is_running, schedule_thread, gate, config, ui, ret, now>>
    /\ UNCHANGED <<pageVars, authVars, ctrlVars, flowVars, paceVars, promptVars,
                   sessionVars, storeVars>>

\* the rest of the tick with a retry: a post that failed is put back on the
\* queue
AfterPost_retry(w, result) ==
    LET id == local[w].post IN
    /\ post_data' = [post_data EXCEPT ![id] =
                        IF result.success
                        THEN _process_post_result([@ EXCEPT !.posted = @ + 1], result)
                        ELSE [@ EXCEPT !.posted = @ + 1, !.status = "queued"]]
    /\ posts_queue' = IF result.success THEN posts_queue ELSE Append(posts_queue, id)
    /\ config' = _process_post_config(config, post_data[id], result)
    /\ config_file' = IF config' = config THEN config_file
                      ELSE save_config(config', config_file, "ok")
    /\ FinishTick(w, local[w].current_time)
    /\ local' = [local EXCEPT ![w] = [post |-> NoPost, current_time |-> NoTime]]

\* the rest of _process_post after post_to_linkedin returned result, and the
\* rest of the loop body; posted counts the calls of post_to_linkedin made
\* for the post. The save of add_error and of add_to_history is a write the
\* disk accepts (the writes that fail are followed in SpecConfig)
AfterPost(w, result) ==
    LET id == local[w].post IN
    /\ post_data' = [post_data EXCEPT ![id] =
                        _process_post_result([@ EXCEPT !.posted = @ + 1], result)]
    /\ config' = _process_post_config(config, post_data[id], result)
    /\ config_file' = IF config' = config THEN config_file
                      ELSE save_config(config', config_file, "ok")
    /\ FinishTick(w, local[w].current_time)
    /\ local' = [local EXCEPT ![w] = [post |-> NoPost, current_time |-> NoTime]]
    /\ UNCHANGED posts_queue

\* the controller calls of _process_post return: check_login_status when the
\* controller was not initialized, then post_to_linkedin, both made in the
\* pacing thread w; then the rest of _process_post and of the loop body
_process_post(w) ==
    /\ thread[w] = "in_post"
    /\ \E launched \in BOOLEAN, delay \in _wait_for_human_delay(2000, 3000),
          flow \in PostFlowResults(start_post_button) :
          LET login_status == _check_login_status(page, delay)
              result == post_to_linkedin(w, is_initialized, launched, login_status, flow)
          IN  /\ is_initialized' = InitializedAfter(w, is_initialized, launched)
              /\ gate' = IF BrowserReady(w, is_initialized, launched)
                         THEN login_status ELSE NoVerdict
              /\ fresult' = IF FlowRun(w, is_initialized, launched, login_status)
                            THEN flow ELSE NoResult
              /\ AfterPost(w, result)
    /\ UNCHANGED <<stop_event, is_running, schedule_thread, ui, ret, now>>
    /\ UNCHANGED <<fpc, fstep, chain, attempts, strategyUsed, outcome, reported,
                   media_files, upload_confirmed, ran, success_marker>>
    /\ UNCHANGED <<pageVars, authVars, paceVars, promptVars, sessionVars>>

\* every result post_to_linkedin can return
PostResults ==
    PostFlowResults(TRUE) \cup PostFlowResults(FALSE) \cup {Result(FALSE, MsgNotLoggedIn)}

\* post_to_linkedin returns result to _process_post: the scheduler with a
\* controller (the constructor argument, scheduler.py:27) whose call returns
\* any of the results of post_to_linkedin
post_to_linkedin_returns(w) ==
    /\ thread[w] = "in_post"
    /\ \E result \in PostResults : AfterPost(w, result)
    /\ UNCHANGED <<stop_event, is_running, schedule_thread, gate, ui, ret, now>>
    /\ UNCHANGED <<pageVars, authVars, ctrlVars, flowVars, paceVars, promptVars,
                   sessionVars>>

\* The loop body in two steps, for the interleavings of two pacing threads:
\* the while condition and the loop body up to posts_queue.get_nowait()
\* (scheduler.py:167), which leaves the post in the thread's local post_data
get_nowait(w) ==
    /\ thread[w] \in {"sleep", "wait", "backoff"}
    /\ IF stop_event
       THEN /\ thread' = [thread EXCEPT ![w] = "dead"]
            /\ UNCHANGED <<posts_queue, local>>
       ELSE \E variation_factor \in Jitters :
            LET actual == actual_interval_minutes(
                              Config_get(config, "posting_interval_minutes"),
                              variation_factor)
                current_time == now
            IN  IF IsDue(current_time, last_post_time, actual) /\ posts_queue # <<>>
                THEN /\ posts_queue' = Tail(posts_queue)
                     /\ thread' = [thread EXCEPT ![w] = "dequeued"]
                     /\ local' = [local EXCEPT ![w] =
                                     [post |-> Head(posts_queue),
                                      current_time |-> current_time]]
                ELSE /\ thread' = [thread EXCEPT ![w] = "wait"]
                     /\ UNCHANGED <<posts_queue, local>>
    /\ UNCHANGED <<unfinished_tasks, last_post_time, post_data>>
    /\ UNCHANGED <<stop_event, is_running, schedule_thread, gate, config, ui, ret, now>>
    /\ UNCHANGED <<pageVars, authVars, ctrlVars, flowVars, paceVars, promptVars,
                   sessionVars, storeVars>>

\* then the call of _process_post up to its first blocking call: a post with
\* empty text is given the status error and the tick ends, a post with text is
\* given the status processing (scheduler.py:208-219)
_process_post_begins(w) ==
    /\ thread[w] = "dequeued"
    /\ LET id == local[w].post IN
       IF post_data[id].text = 0
       THEN /\ post_data' = [post_data EXCEPT ![id].status = "error",
                                              ![id].error = MsgEmptyText]
            /\ FinishTick(w, local[w].current_time)
            /\ local' = [local EXCEPT ![w] = [post |-> NoPost, current_time |-> NoTime]]
       ELSE /\ post_data' = [post_data EXCEPT ![id].status = "processing"]
            /\ thread' = [thread EXCEPT ![w] = "in_post"]
            /\ UNCHANGED <<unfinished_tasks, last_post_time, local>>
    /\ UNCHANGED <<posts_queue, stop_event, is_running, schedule_thread, gate, config,
                   ui, ret, now>>
    /\ UNCHANGED <<pageVars, authVars, ctrlVars, flowVars, paceVars, promptVars,
                   sessionVars, storeVars>>

\* ------------------------------------------------------------------------
\* LinkedInController._post_to_linkedin: the posting flow
\* ------------------------------------------------------------------------

\* lengths of the selector lists of the flow
post_button_selectors == 10
composer_selectors == 3
text_input_selectors == 5
media_button_selectors == 7
next_button_selectors == 8
post_submit_selectors == 8

Chains ==
    {"open_composer", "composer_surface", "text_input", "media_button",
     "next_button", "submit"}

\* the strategies of a chain, in the order the code tries them:
\*   open_composer     the text click, the selectors, the page script
\*   composer_surface  the three wait_for_selector calls
\*   text_input        the selectors, the page script
\*   media_button      the selectors, the page script
\*   next_button       the selectors, the page script, the Enter key
\*   submit            the selectors, the page script
ChainLength(c) ==
    CASE c = "open_composer" -> 1 + post_button_selectors + 1
      [] c = "composer_surface" -> composer_selectors
      [] c = "text_input" -> text_input_selectors + 1
      [] c = "media_button" -> media_button_selectors + 1
      [] c = "next_button" -> next_button_selectors + 1 + 1
      [] c = "submit" -> post_submit_selectors + 1

\* a strategy that is one click or one wait_for_selector call either succeeds
\* or raises; the others (visibility test then click, page script, Enter key
\* then query) can also find nothing. No strategy of the open-composer chain
\* succeeds on a feed page without the affordance
Outcomes(c, i, present) ==
    IF c = "open_composer" /\ ~present
    THEN IF i = 1 THEN {"throw"} ELSE {"miss", "throw"}
    ELSE
    IF \/ c = "open_composer" /\ i = 1
       \/ c = "composer_surface"
       \/ c = "text_input" /\ i <= text_input_selectors
       \/ c = "media_button" /\ i <= media_button_selectors
       \/ c = "next_button" /\ i <= next_button_selectors
       \/ c = "submit" /\ i <= post_submit_selectors
    THEN {"hit", "throw"}
    ELSE {"hit", "miss", "throw"}

\* a chain that gives up at the first strategy that raises
AfterAttempt_throw_aborts(c, i, o) ==
    IF o = "hit" THEN "found"
    ELSE IF i < ChainLength(c) /\ o # "throw" THEN "next"
    ELSE "not_found"

\* what a chain does after strategy i ended with outcome o: break on a hit,
\* continue with the next strategy on a miss or an exception, give up after
\* the last one
AfterAttempt(c, i, o) ==
    IF o = "hit" THEN "found"
    ELSE IF i < ChainLength(c) THEN "next"
    ELSE "not_found"

Goto(step) == [kind |-> "step", name |-> step]
Chain(c) == [kind |-> "chain", name |-> c]
Return(success, message) == [kind |-> "return", result |-> Result(success, message)]
\* the except clause of _post_to_linkedin
Raise == Return(FALSE, MsgPostError)

\* a flow that goes on to the text input when the composer did not appear
AfterChain_surface_optional(c, found, strategy) ==
    CASE c = "open_composer" ->
            IF found THEN Chain("composer_surface")
            ELSE Return(FALSE, MsgComposerNotFound)
      [] c = "composer_surface" -> Chain("text_input")
      [] c = "text_input" ->
            IF ~found THEN Return(FALSE, MsgTextInputNotFound)
            ELSE IF strategy <= text_input_selectors THEN Goto("focus_text")
            ELSE Goto("type_text")
      [] c = "media_button" ->
            IF found THEN Goto("file_input") ELSE Chain("submit")
      [] c = "next_button" ->
            IF found THEN Goto("cancel_check") ELSE Goto("screenshot_next_button")
      [] c = "submit" ->
            IF found THEN Goto("wait_submitted") ELSE Goto("screenshot_submit")

\* where the flow goes after a chain, by whether a strategy hit
AfterChain(c, found, strategy) ==
    CASE c = "open_composer" ->
            IF found THEN Chain("composer_surface")
            ELSE Return(FALSE, MsgComposerNotFound)
      [] c = "composer_surface" ->
            IF found THEN Chain("text_input")
            ELSE Goto("screenshot_composer")
      [] c = "text_input" ->
            IF ~found THEN Return(FALSE, MsgTextInputNotFound)
            ELSE IF strategy <= text_input_selectors THEN Goto("focus_text")
            ELSE Goto("type_text")
      [] c = "media_button" ->
            IF found THEN Goto("file_input") ELSE Chain("submit")
      [] c = "next_button" ->
            IF found THEN Goto("cancel_check") ELSE Goto("screenshot_next_button")
      [] c = "submit" ->
            IF found THEN Goto("wait_submitted") ELSE Goto("screenshot_submit")

\* the steps of the flow that are not chains:
\*   goto_feed, goto_feed_retry   page.goto with wait_until "load", then
\*                                "domcontentloaded"
\*   wait_feed                    the wait for the feed elements
\*   debug_dir                    os.makedirs of the debug directory
\*   screenshot_*                 the diagnostic screenshots
\*   html_structure               the dump of the page structure
\*   focus_text, type_text        focus, then Control+A, Backspace and the text
\*   file_input .. media_escape   the media upload
\*   wait_submitted               the five seconds after the submit click
\*   close_buttons .. escape_keys closing lingering dialogs
Steps ==
    {"goto_feed", "goto_feed_retry", "wait_feed", "debug_dir", "screenshot_feed",
     "screenshot_composer", "focus_text", "type_text", "file_input",
     "upload_indicator", "has_images", "screenshot_upload",
     "screenshot_next_button", "cancel_check", "dismiss_escape", "media_escape",
     "screenshot_submit", "html_structure", "wait_submitted", "close_buttons",
     "lingering_dialogs", "background_click", "escape_keys", "screenshot_final"}

\* the steps that produce a diagnostic artifact
CaptureSteps ==
    {"debug_dir", "screenshot_feed", "screenshot_composer", "screenshot_upload",
     "screenshot_next_button", "screenshot_submit", "html_structure",
     "screenshot_final"}

\* a navigation whose failed retry is ignored
AfterFeedStep_retry_ignored(s, ok) ==
    CASE s = "goto_feed" -> IF ok THEN Goto("wait_feed") ELSE Goto("goto_feed_retry")
      [] s = "goto_feed_retry" -> Goto("wait_feed")
      [] s = "wait_feed" -> Goto("debug_dir")
      [] s = "debug_dir" -> IF ok THEN Goto("screenshot_feed") ELSE Raise
      [] s = "screenshot_feed" -> Chain("open_composer")

\* the steps before the composer: the second page.goto is in the except
\* clause of the first and in no try block of its own, os.makedirs is in none
\* either, the wait for the feed elements and the screenshot are
AfterFeedStep(s, ok) ==
    CASE s = "goto_feed" -> IF ok THEN Goto("wait_feed") ELSE Goto("goto_feed_retry")
      [] s = "goto_feed_retry" -> IF ok THEN Goto("wait_feed") ELSE Raise
      [] s = "wait_feed" -> Goto("debug_dir")
      [] s = "debug_dir" -> IF ok THEN Goto("screenshot_feed") ELSE Raise
      [] s = "screenshot_feed" -> Chain("open_composer")

\* a confirmation that reports a failure when closing the dialogs raised
AfterDialogStep_close_error_fails(s, ok, lingering) ==
    CASE s = "wait_submitted" -> Goto("close_buttons")
      [] s = "close_buttons" -> Goto("lingering_dialogs")
      [] s = "lingering_dialogs" ->
            IF ~ok THEN Raise
            ELSE IF lingering THEN Goto("background_click")
            ELSE Goto("screenshot_final")
      [] s = "background_click" -> Goto("escape_keys")
      [] s = "escape_keys" -> IF ok THEN Goto("screenshot_final") ELSE Raise
      [] s = "screenshot_final" -> Return(TRUE, MsgPosted)

\* the steps after the submit click: the sleep, then the try block that
\* closes lingering dialogs, whose except clause only logs. lingering tells
\* whether the page script found a dialog it could not close
AfterDialogStep(s, ok, lingering) ==
    CASE s = "wait_submitted" -> Goto("close_buttons")
      [] s = "close_buttons" -> Goto("lingering_dialogs")
      [] s = "lingering_dialogs" ->
            IF ~ok THEN Return(TRUE, MsgPosted)
            ELSE IF lingering THEN Goto("background_click")
            ELSE Goto("screenshot_final")
      [] s = "background_click" -> Goto("escape_keys")
      [] s = "escape_keys" ->
            IF ok THEN Goto("screenshot_final") ELSE Return(TRUE, MsgPosted)
      [] s = "screenshot_final" -> Return(TRUE, MsgPosted)

\* where the flow goes after a step that is not a chain, by whether the step
\* succeeded (ok) or raised
AfterStep(s, ok, media, confirmed, next_clicked, lingering) ==
    CASE s \in {"goto_feed", "goto_feed_retry", "wait_feed", "debug_dir",
                "screenshot_feed"} -> AfterFeedStep(s, ok)
      [] s \in {"wait_submitted", "close_buttons", "lingering_dialogs",
                "background_click", "escape_keys", "screenshot_final"} ->
            AfterDialogStep(s, ok, lingering)
      [] s = "screenshot_composer" -> Return(FALSE, MsgComposerSurface)
      [] s = "focus_text" -> IF ok THEN Goto("type_text") ELSE Raise
      [] s = "type_text" ->
            IF ~ok THEN Raise
            ELSE IF media > 0 THEN Chain("media_button") ELSE Chain("submit")
      [] s = "file_input" -> IF ok THEN Goto("upload_indicator") ELSE Goto("media_escape")
      [] s = "upload_indicator" ->
            IF ok THEN Goto("screenshot_upload") ELSE Goto("has_images")
      [] s = "has_images" -> Goto("screenshot_upload")
      [] s = "screenshot_upload" ->
            IF confirmed THEN Chain("next_button") ELSE Goto("cancel_check")
      [] s = "screenshot_next_button" -> Goto("cancel_check")
      [] s = "cancel_check" ->
            IF ~confirmed \/ (confirmed /\ ~next_clicked)
            THEN Goto("dismiss_escape") ELSE Chain("submit")
      [] s = "dismiss_escape" -> IF ok THEN Chain("submit") ELSE Goto("media_escape")
      [] s = "media_escape" -> IF ok THEN Chain("submit") ELSE Raise
      [] s = "screenshot_submit" -> Goto("html_structure")
      [] s = "html_structure" -> Return(FALSE, MsgSubmitNotFound)

\* upload_confirmed after a step
ConfirmedAfter(s, ok, confirmed) ==
    IF s \in {"upload_indicator", "has_images"} THEN ok ELSE confirmed

\* the flow moves to target t
FlowGo(t) ==
    CASE t.kind = "step" ->
            /\ fpc' = "step"
            /\ fstep' = t.name
            /\ UNCHANGED <<chain, attempts, strategyUsed, outcome, reported, fresult>>
      [] t.kind = "chain" ->
            /\ fpc' = "chain"
            /\ fstep' = ""
            /\ chain' = t.name
            /\ attempts' = <<>>
            /\ strategyUsed' = 0
            /\ outcome' = ""
            /\ reported' = ""
            /\ UNCHANGED fresult
      [] t.kind = "return" ->
            /\ fpc' = "done"
            /\ fstep' = ""
            /\ fresult' = t.result
            /\ UNCHANGED <<chain, attempts, strategyUsed, outcome, reported>>

\* one browser interaction that is not part of a chain. The sleep after the
\* submit click does not raise; while it lasts the page shows a success marker
\* or does not
flow_step ==
    /\ fpc = "step"
    /\ \E ok \in (IF fstep = "wait_submitted" THEN {TRUE} ELSE BOOLEAN),
          lingering \in (IF fstep = "lingering_dialogs" THEN BOOLEAN ELSE {FALSE}) :
        /\ (lingering => ok)
        /\ upload_confirmed' = ConfirmedAfter(fstep, ok, upload_confirmed)
        /\ ran' = Append(ran, [name |-> fstep, ok |-> ok])
        /\ FlowGo(AfterStep(fstep, ok, media_files, upload_confirmed',
                            chain = "next_button" /\ strategyUsed # 0, lingering))
    /\ IF fstep = "wait_submitted"
       THEN success_marker' \in BOOLEAN
       ELSE UNCHANGED success_marker
    /\ UNCHANGED media_files
    /\ UNCHANGED <<pageVars, authVars, ctrlVars, schedVars, paceVars, promptVars,
                   sessionVars, storeVars>>

\* the next strategy of the current chain is attempted
flow_attempt ==
    /\ fpc = "chain"
    /\ LET i == Len(attempts) + 1 IN
       \E o \in Outcomes(chain, i, start_post_button) :
          LET after == AfterAttempt(chain, i, o) IN
          /\ attempts' = Append(attempts, i)
          /\ outcome' = o
          /\ strategyUsed' = IF after = "found" THEN i ELSE 0
          /\ reported' = IF after = "not_found" THEN "not_found" ELSE ""
          /\ fpc' = IF after = "next" THEN "chain" ELSE "chain_end"
    /\ UNCHANGED <<fstep, chain, media_files, upload_confirmed, fresult, ran,
                   success_marker>>
    /\ UNCHANGED <<pageVars, authVars, ctrlVars, schedVars, paceVars, promptVars,
                   sessionVars, storeVars>>

\* the statements after a chain: on to the next step, or the failure result
flow_chain_end ==
    /\ fpc = "chain_end"
    /\ ran' = Append(ran, [name |-> chain, ok |-> strategyUsed # 0])
    /\ FlowGo(AfterChain(chain, strategyUsed # 0, strategyUsed))
    /\ UNCHANGED <<media_files, upload_confirmed, success_marker>>
    /\ UNCHANGED <<pageVars, authVars, ctrlVars, schedVars, paceVars, promptVars,
                   sessionVars, storeVars>>

InitFlowVars ==
    /\ fpc = "step"
    /\ fstep = "goto_feed"
    /\ chain = ""
    /\ attempts = <<>>
    /\ strategyUsed = 0
    /\ outcome = ""
    /\ reported = ""
    /\ upload_confirmed = FALSE
    /\ fresult = NoResult
    /\ ran = <<>>
    /\ success_marker = FALSE

\* ------------------------------------------------------------------------
\* The UI thread's controller calls (ui/main_window.py) and the environment
\* ------------------------------------------------------------------------

UiOps ==
    {"check_login_status", "post_scheduled_item", "prompt_login",
     "close_browser", "clear_browser_data"}

\* the UI thread enters a controller call
ui_call ==
    \E op \in UiOps :
        /\ ui.pc = "idle"
        /\ ui' = [pc |-> "ctrl", op |-> op]
        /\ UNCHANGED <<posts_queue, unfinished_tasks, stop_event, is_running,
                       last_post_time, schedule_thread, thread, local, post_data,
                       gate, config, ret, now>>
        /\ UNCHANGED <<pageVars, authVars, ctrlVars, flowVars, paceVars, promptVars,
                   sessionVars, storeVars>>

\* the controller call of the UI thread returns: close_browser and
\* clear_browser_data leave the controller uninitialized, the others
\* initialize it unless the launch fails. post_scheduled_item goes on to
\* post_to_linkedin when its own check_login_status said logged in
ui_return ==
    /\ ui.pc = "ctrl"
    /\ ui.op \in UiOps
    /\ IF ui.op \in {"close_browser", "clear_browser_data"}
       THEN /\ is_initialized' = FALSE
            /\ ui' = [pc |-> "idle", op |-> ""]
       ELSE \E launched \in BOOLEAN, delay \in _wait_for_human_delay(2000, 3000) :
            LET login_status == check_login_status(MainThread, is_initialized,
                                                   launched, page, delay)
            IN  /\ is_initialized' = InitializedAfter(MainThread, is_initialized, launched)
                /\ ui' = IF ui.op = "post_scheduled_item" /\ login_status.isLoggedIn
                         THEN [pc |-> "ctrl", op |-> "post_to_linkedin"]
                         ELSE [pc |-> "idle", op |-> ""]
    /\ UNCHANGED <<posts_queue, unfinished_tasks, stop_event, is_running,
                   last_post_time, schedule_thread, thread, local, post_data,
                   gate, config, ret, now>>
    /\ UNCHANGED <<pageVars, authVars, flowVars, paceVars, promptVars,
                   sessionVars, storeVars>>

\* the post_to_linkedin call of post_scheduled_item returns: the login check
\* of the gate is made on the page the site shows now, the flow is run when
\* the gate lets it
ui_post_to_linkedin ==
    /\ ui.pc = "ctrl"
    /\ ui.op = "post_to_linkedin"
    /\ \E launched \in BOOLEAN, delay \in _wait_for_human_delay(2000, 3000),
          flow \in PostFlowResults(start_post_button) :
          LET login_status == _check_login_status(page, delay) IN
          /\ is_initialized' = InitializedAfter(MainThread, is_initialized, launched)
          /\ gate' = IF BrowserReady(MainThread, is_initialized, launched)
                     THEN login_status ELSE NoVerdict
          /\ fresult' = IF FlowRun(MainThread, is_initialized, launched, login_status)
                        THEN flow ELSE NoResult
    /\ ui' = [pc |-> "idle", op |-> ""]
    /\ UNCHANGED <<posts_queue, unfinished_tasks, stop_event, is_running,
                   last_post_time, schedule_thread, thread, local, post_data,
                   config, ret, now>>
    /\ UNCHANGED <<fpc, fstep, chain, attempts, strategyUsed, outcome, reported,
                   media_files, upload_confirmed, ran, success_marker>>
    /\ UNCHANGED <<pageVars, authVars, paceVars, promptVars,
                   sessionVars, storeVars>>

\* a logged-in feed page, the guest home page, a challenge page and a page that
\* does not load
PageLoggedIn ==
    [loads |-> TRUE,
     navCheck |-> [k \in NavKeys |-> TRUE],
     url |-> UrlFeed, hasLoginForm |-> FALSE, hasWelcomeText |-> FALSE,
     securityElement |-> FALSE, phrase |-> 0]

PageLoggedOut ==
    [loads |-> TRUE,
     navCheck |-> [k \in NavKeys |-> FALSE],
     url |-> UrlHome, hasLoginForm |-> TRUE, hasWelcomeText |-> FALSE,
     securityElement |-> FALSE, phrase |-> 0]

PageChallenge == [PageLoggedIn EXCEPT !.url = UrlCheckpoint, !.securityElement = TRUE]

PageUnreachable == [PageLoggedOut EXCEPT !.loads = FALSE]

SamplePages == {PageLoggedIn, PageLoggedOut, PageChallenge, PageUnreachable}

\* the site shows another page
page_changes ==
    /\ page' \in SamplePages \ {page}
    /\ UNCHANGED start_post_button
    /\ UNCHANGED <<authVars, ctrlVars, schedVars, flowVars, paceVars, promptVars,
                   sessionVars, storeVars>>

\* time passes
clock_tick ==
    /\ now < MaxAdvances * MinIntervalMinutes
    /\ now' = now + MinIntervalMinutes
    /\ UNCHANGED <<posts_queue, unfinished_tasks, stop_event, is_running,
                   last_post_time, schedule_thread, thread, local, post_data,
                   gate, config, ui, ret>>
    /\ UNCHANGED <<pageVars, authVars, ctrlVars, flowVars, paceVars, promptVars,
                   sessionVars, storeVars>>

\* datetime.now() without an end: the clock advances, and once now has
\* reached its largest value in the model the time stamps the scheduler holds
\* grow older in its place. A time stamp older than three times the least
\* interval (15 minutes, more than the longest due interval,
\* 1.1 * 10 minutes) passes every due test and is not aged further
time_passes ==
    LET latest == MaxAdvances * MinIntervalMinutes
        Older(t) == IF t = NoTime THEN NoTime
                    ELSE Max(t - MinIntervalMinutes, latest - 3 * MinIntervalMinutes)
    IN  /\ IF now < latest
           THEN /\ now' = now + MinIntervalMinutes
                /\ UNCHANGED <<last_post_time, local>>
           ELSE /\ now' = now
                /\ last_post_time' = Older(last_post_time)
                /\ local' = [w \in Workers |->
                                [local[w] EXCEPT !.current_time = Older(@)]]
        /\ UNCHANGED <<posts_queue, unfinished_tasks, stop_event, is_running,
                       schedule_thread, thread, post_data, gate, config, ui, ret>>
        /\ UNCHANGED <<pageVars, authVars, ctrlVars, flowVars, paceVars, promptVars,
                       sessionVars, storeVars>>

InitSched ==
    /\ posts_queue = <<>>
    /\ unfinished_tasks = 0
    /\ stop_event = FALSE
    /\ is_running = FALSE
    /\ last_post_time = NoTime
    /\ schedule_thread = 0
    /\ thread = [w \in Workers |-> "unborn"]
    /\ local = [w \in Workers |-> [post |-> NoPost, current_time |-> NoTime]]
    /\ post_data = [i \in PostIds |->
                       [text |-> 0, status |-> "none", error |-> "", result |-> "",
                        posted |-> 0]]
    /\ gate = NoVerdict
    /\ ui = [pc |-> "idle", op |-> ""]
    /\ ret = FALSE
    /\ now = 0

\* ------------------------------------------------------------------------
\* LinkedInController._prompt_login
\* ------------------------------------------------------------------------

MsgAlreadyLoggedIn == "Already logged in to LinkedIn"
MsgLoginOk == "Successfully logged in to LinkedIn"
MsgLoginTimeout == "Login timed out after 3 minutes. Please try again."
MsgPromptError == "Error prompting login"

\* range(max_wait_time // check_interval): 180 s in polls of 5 s
max_polls == 36

PromptResult(success, error, message) ==
    [success |-> success, error |-> error, message |-> message]

\* prompt_login has been called and _prompt_login is at its first statement
PromptStart ==
    [pc |-> "check", polls |-> 0, challenged |-> FALSE,
     result |-> PromptResult(FALSE, ErrNone, <<>>)]

\* the check made first: returns success when the user is logged in already
prompt_check ==
    /\ prompt.pc = "check"
    /\ \E delay \in _wait_for_human_delay(2000, 3000) :
          LET login_status == _check_login_status(page, delay) IN
          prompt' = IF login_status.isLoggedIn
                    THEN [prompt EXCEPT !.pc = "done",
                             !.result = PromptResult(TRUE, ErrNone, <<MsgAlreadyLoggedIn>>)]
                    ELSE [prompt EXCEPT !.pc = "goto_login"]
    /\ UNCHANGED <<pageVars, authVars, ctrlVars, schedVars, flowVars, paceVars,
                   sessionVars, storeVars>>

\* page.goto of the login page and the 3 to 5 s delay: the except clause when
\* the navigation raises
prompt_goto_login ==
    /\ prompt.pc = "goto_login"
    /\ prompt' = IF page.loads
                 THEN [prompt EXCEPT !.pc = "security"]
                 ELSE [prompt EXCEPT !.pc = "done",
                          !.result = PromptResult(FALSE, ErrException, <<MsgPromptError>>)]
    /\ UNCHANGED <<pageVars, authVars, ctrlVars, schedVars, flowVars, paceVars,
                   sessionVars, storeVars>>

\* the challenge test on the login page, before the wait loop
prompt_security ==
    /\ prompt.pc = "security"
    /\ LET security_check == _detect_security_challenges(page) IN
       prompt' = IF security_check.hasSecurityChallenge
                 THEN [prompt EXCEPT !.pc = "done",
                          !.result = PromptResult(FALSE, ErrSecurityChallenge,
                                                  security_check.message)]
                 ELSE [prompt EXCEPT !.pc = "poll"]
    /\ UNCHANGED <<pageVars, authVars, ctrlVars, schedVars, flowVars, paceVars,
                   sessionVars, storeVars>>

\* a wait loop without its budget: the loop goes on for as long as the check
\* does not say logged in
prompt_after_poll_no_budget(polls, challenged, login_status, security_check) ==
    IF login_status.isLoggedIn
    THEN [pc |-> "done", polls |-> polls, challenged |-> challenged,
          result |-> PromptResult(TRUE, ErrNone, <<MsgLoginOk>>)]
    ELSE [pc |-> "poll", polls |-> IF polls < max_polls THEN polls ELSE max_polls - 1,
          challenged |-> challenged \/ security_check.hasSecurityChallenge,
          result |-> PromptResult(FALSE, ErrNone, <<>>)]

\* the state of the wait loop after its poll number polls: success when the
\* check says logged in; otherwise the challenge test, whose result is only
\* logged, and the next poll, or the timeout result after the last poll
prompt_after_poll(polls, challenged, login_status, security_check) ==
    IF login_status.isLoggedIn
    THEN [pc |-> "done", polls |-> polls, challenged |-> challenged,
          result |-> PromptResult(TRUE, ErrNone, <<MsgLoginOk>>)]
    ELSE IF polls < max_polls
    THEN [pc |-> "poll", polls |-> polls,
          challenged |-> challenged \/ security_check.hasSecurityChallenge,
          result |-> PromptResult(FALSE, ErrNone, <<>>)]
    ELSE [pc |-> "done", polls |-> polls,
          challenged |-> challenged \/ security_check.hasSecurityChallenge,
          result |-> PromptResult(FALSE, ErrNone, <<MsgLoginTimeout>>)]

\* one iteration of the wait loop: the 5 s sleep, the login check, the
\* challenge test
prompt_poll ==
    /\ prompt.pc = "poll"
    /\ \E delay \in _wait_for_human_delay(2000, 3000) :
          prompt' = prompt_after_poll(prompt.polls + 1, prompt.challenged,
                                      _check_login_status(page, delay),
                                      _detect_security_challenges(page))
    /\ UNCHANGED <<pageVars, authVars, ctrlVars, schedVars, flowVars, paceVars,
                   sessionVars, storeVars>>

\* ------------------------------------------------------------------------
\* Config: the store and its file
\* ------------------------------------------------------------------------

\* the result of a Config call: ok is the value it returned (add_to_history
\* and add_error return None), error tells whether its save_config failed
ConfigReturned(op, value, written) ==
    [op |-> op, ok |-> value,
     error |-> IF written = "ok" THEN ErrNone ELSE ErrException,
     message |-> <<>>, check |-> NoVerdict.error]

\* Config(): the application starts; load_config reads the file and writes
\* the defaults when there is no file
Config_new ==
    \E written \in SaveOutcomes :
       /\ config' = load_config(config_file)
       /\ config_file' = IF config_file.state = "missing"
                         THEN save_config(config', config_file, written)
                         ELSE config_file
       /\ returned' = ConfigReturned("load_config", TRUE,
                                     IF config_file.state = "missing" THEN written ELSE "ok")
       /\ UNCHANGED <<browser_context, page_handle, playwright, live_contexts, launches,
                      lock_files, at_launch>>
       /\ UNCHANGED <<posts_queue, unfinished_tasks, stop_event, is_running,
                      last_post_time, schedule_thread, thread, local, post_data, gate,
                      ui, ret, now>>
       /\ UNCHANGED <<pageVars, authVars, ctrlVars, flowVars, paceVars, promptVars>>

\* the configuration in memory after the mutating call op; the posts are
\* posts of 5 characters
Mutated(op) ==
    CASE op = "set" ->
            {Config_set(config, "posting_interval_minutes", value) : value \in Intervals}
      [] op = "add_to_history" ->
            IF Len(config.history) < MaxHistory
            THEN {add_to_history(config, [text |-> 5], "Posted")} ELSE {}
      [] op = "add_error" ->
            IF Len(config.errors) < MaxHistory
            THEN {add_error(config, [error |-> MsgPostError, post_text |-> 5])} ELSE {}
      [] op = "clear_history" -> {clear_history(config)}
      [] OTHER -> {clear_errors(config)}

\* a mutating call of the Config: the change in memory, then save_config
Config_call(op) ==
    \E cfg \in Mutated(op), written \in SaveOutcomes :
       /\ config' = cfg
       /\ config_file' = save_config(cfg, config_file, written)
       /\ returned' = ConfigReturned(op, op \notin {"add_to_history", "add_error"}
                                         /\ written = "ok", written)
       /\ UNCHANGED <<browser_context, page_handle, playwright, live_contexts, launches,
                      lock_files, at_launch>>
       /\ UNCHANGED <<posts_queue, unfinished_tasks, stop_event, is_running,
                      last_post_time, schedule_thread, thread, local, post_data, gate,
                      ui, ret, now>>
       /\ UNCHANGED <<pageVars, authVars, ctrlVars, flowVars, paceVars, promptVars>>

\* ------------------------------------------------------------------------
\* LinkedInController: the browser session
\* ------------------------------------------------------------------------

\* the lock artifacts of a Chrome profile _force_cleanup_user_data_dir names
LockNames == <<"SingletonLock", "SingletonCookie", "SingletonSocket">>

\* no controller call was made yet
NoCall ==
    [op |-> "none", ok |-> FALSE, error |-> ErrNone, message |-> <<>>,
     check |-> NoVerdict.error]

\* LinkedInController.__init__ on a clean profile directory
SessionStart ==
    /\ browser_context = 0
    /\ page_handle = 0
    /\ playwright = FALSE
    /\ live_contexts = {}
    /\ launches = 0
    /\ lock_files = [n \in 1..Len(LockNames) |-> "absent"]
    /\ at_launch = {}
    /\ returned = NoCall

\* os.path.exists(path) of an artifact that is absent, a file, or a symbolic
\* link whose target is not there (what Chrome leaves on Linux and macOS:
\* SingletonLock links to "host-pid"): exists follows the link
path_exists(kind) == kind = "file"

\* _force_cleanup_user_data_dir: the artifacts after it. Each artifact that
\* exists is unlinked, in the order of LockNames; the unlink of artifact
\* number unlink_fails raises (0: none does), and the one try block of the
\* function ends there
_force_cleanup_user_data_dir(files, unlink_fails) ==
    LET raises == unlink_fails \in DOMAIN files /\ path_exists(files[unlink_fails])
    IN  [n \in DOMAIN files |->
            IF path_exists(files[n]) /\ (~raises \/ n < unlink_fails)
            THEN "absent" ELSE files[n]]

\* the fields of the controller, the browser contexts alive and the profile
\* directory
Controller ==
    [browser_context |-> browser_context, page |-> page_handle,
     playwright |-> playwright, is_initialized |-> is_initialized,
     live |-> live_contexts, launches |-> launches, lock_files |-> lock_files,
     at_launch |-> at_launch]

\* an _init_browser without its "Browser already initialized" return
_init_browser_relaunch(c, unlink_fails, startup) ==
    LET id == c.launches + 1
        launched == [c EXCEPT !.playwright = TRUE, !.launches = id,
                        !.live = @ \cup {id}, !.browser_context = id, !.page = id]
    IN  CASE startup \in {"start_raises", "launch_raises"} -> [c |-> c, raised |-> TRUE]
          [] startup = "stealth_raises" -> [c |-> launched, raised |-> TRUE]
          [] OTHER -> [c |-> [launched EXCEPT !.is_initialized = TRUE], raised |-> FALSE]

\* _init_browser on controller c: the controller after it and whether it
\* raised. startup is what happens: "ok", or async_playwright().start(),
\* launch_persistent_context or add_init_script raises
_init_browser(c, unlink_fails, startup) ==
    IF c.browser_context # 0
    THEN [c |-> c, raised |-> FALSE]
    ELSE LET files == _force_cleanup_user_data_dir(c.lock_files, unlink_fails)
             cleaned == [c EXCEPT !.lock_files = files]
             started == [cleaned EXCEPT !.playwright = TRUE,
                            !.at_launch = {n \in DOMAIN files : files[n] # "absent"}]
             id == c.launches + 1
             launched == [started EXCEPT !.launches = id, !.live = @ \cup {id},
                             !.browser_context = id, !.page = id]
         IN  CASE startup = "start_raises" -> [c |-> cleaned, raised |-> TRUE]
               [] startup = "launch_raises" -> [c |-> started, raised |-> TRUE]
               [] startup = "stealth_raises" -> [c |-> launched, raised |-> TRUE]
               [] OTHER -> [c |-> [launched EXCEPT !.is_initialized = TRUE],
                            raised |-> FALSE]

\* _close_browser on controller c: the controller after it and whether it
\* raised. closing is what happens: "ok", browser_context.close() raises
\* with the context still open or with the context gone, or
\* playwright.stop() raises
_close_browser(c, closing) ==
    LET closed == [c EXCEPT !.live = @ \ {c.browser_context}, !.browser_context = 0]
        stopped == [closed EXCEPT !.playwright = FALSE]
    IN  IF c.browser_context # 0 /\ closing = "close_raises"
        THEN [c |-> c, raised |-> TRUE]
        ELSE IF c.browser_context # 0 /\ closing = "close_raises_closed"
        THEN [c |-> [c EXCEPT !.live = @ \ {c.browser_context}], raised |-> TRUE]
        ELSE IF c.playwright /\ closing = "stop_raises"
        THEN [c |-> closed, raised |-> TRUE]
        ELSE [c |-> [stopped EXCEPT !.page = 0, !.is_initialized = FALSE],
              raised |-> FALSE]

\* "if not self.is_initialized: self._run_async(self._init_browser())" at the
\* head of check_login_status, prompt_login and post_to_linkedin, called in
\* thread t; raised also when the _run_async of the call itself is to raise
initialize_if_needed(t, unlink_fails, startup) ==
    IF _run_async(t) /\ ~is_initialized
    THEN _init_browser(Controller, unlink_fails, startup)
    ELSE [c |-> Controller, raised |-> ~_run_async(t)]

\* the site as the page of controller c shows it: a page whose context was
\* closed loads nothing
page_of(c) == IF c.page \in c.live THEN page ELSE PageUnreachable

\* the controller c is the controller after the call
controller_becomes(c) ==
    /\ browser_context' = c.browser_context
    /\ page_handle' = c.page
    /\ playwright' = c.playwright
    /\ is_initialized' = c.is_initialized
    /\ live_contexts' = c.live
    /\ launches' = c.launches
    /\ lock_files' = c.lock_files
    /\ at_launch' = c.at_launch

\* what a startup can be: the artifact whose unlink raises and the call that
\* raises. A launch returns a context only while the model has a name left
\* for it; nothing is chosen when _init_browser is not run or returns at once
Startups ==
    IF is_initialized \/ browser_context # 0
    THEN {[unlink_fails |-> 0, startup |-> "ok"]}
    ELSE [unlink_fails : 0..Len(LockNames),
          startup : {"start_raises", "launch_raises"} \cup
                    (IF launches < MaxLaunches THEN {"ok", "stealth_raises"} ELSE {})]

\* check_login_status() called in thread t. In the calls of this section the
\* delay of the check, which no verdict depends on, is its shortest; check is
\* the error of the authentication check the call made
call_check_login_status ==
    \E t \in {MainThread, 1}, e \in Startups,
       delay \in _wait_for_human_delay(2000, 2000) :
       LET r == initialize_if_needed(t, e.unlink_fails, e.startup)
           verdict == check_login_status(t, is_initialized, ~r.raised, page_of(r.c), delay)
       IN  /\ controller_becomes(r.c)
           /\ returned' = [op |-> "check_login_status", ok |-> verdict.isLoggedIn,
                           error |-> verdict.error, message |-> verdict.message,
                           check |-> verdict.error]
           /\ UNCHANGED <<pageVars, authVars, schedVars, flowVars, paceVars, promptVars,
                          storeVars>>

\* the results of _prompt_login on page p: success at once when the first
\* check says logged in; else the failure of the challenge test on the login
\* page, a login within the wait, the timeout, or the except clause
prompt_login(p, delay) ==
    IF _check_login_status(p, delay).isLoggedIn
    THEN {PromptResult(TRUE, ErrNone, <<MsgAlreadyLoggedIn>>)}
    ELSE {PromptResult(TRUE, ErrNone, <<MsgLoginOk>>),
          PromptResult(FALSE, ErrNone, <<MsgLoginTimeout>>),
          PromptResult(FALSE, ErrException, <<MsgPromptError>>)} \cup
         (IF _detect_security_challenges(p).hasSecurityChallenge
          THEN {PromptResult(FALSE, ErrSecurityChallenge,
                             _detect_security_challenges(p).message)}
          ELSE {})

\* prompt_login() called in thread t
call_prompt_login ==
    \E t \in {MainThread, 1}, e \in Startups,
       delay \in _wait_for_human_delay(2000, 2000) :
       LET r == initialize_if_needed(t, e.unlink_fails, e.startup) IN
       /\ controller_becomes(r.c)
       /\ \E res \in IF r.raised
                      THEN {PromptResult(FALSE, ErrException, <<MsgPromptError>>)}
                      ELSE prompt_login(page_of(r.c), delay) :
             returned' = [op |-> "prompt_login", ok |-> res.success,
                          error |-> res.error, message |-> res.message,
                          check |-> IF r.raised THEN NoVerdict.error
                                    ELSE _check_login_status(page_of(r.c), delay).error]
       /\ UNCHANGED <<pageVars, authVars, schedVars, flowVars, paceVars, promptVars,
                      storeVars>>

\* post_to_linkedin(text, media_files) called in thread t
call_post_to_linkedin ==
    \E t \in {MainThread, 1}, e \in Startups,
       delay \in _wait_for_human_delay(2000, 2000),
       flow \in PostFlowResults(start_post_button) :
       LET r == initialize_if_needed(t, e.unlink_fails, e.startup)
           login_status == _check_login_status(page_of(r.c), delay)
           res == post_to_linkedin(t, is_initialized, ~r.raised, login_status, flow)
       IN  /\ controller_becomes(r.c)
           /\ returned' = [op |-> "post_to_linkedin", ok |-> res.success,
                           error |-> ErrNone, message |-> <<res.message>>,
                           check |-> IF BrowserReady(t, is_initialized, ~r.raised)
                                     THEN login_status.error ELSE NoVerdict.error]
           /\ UNCHANGED <<pageVars, authVars, schedVars, flowVars, paceVars, promptVars,
                          storeVars>>

\* close_browser() called in thread t
close_browser ==
    \E t \in {MainThread, 1},
       closing \in {"ok", "close_raises", "close_raises_closed", "stop_raises"} :
       LET r == IF _run_async(t) THEN _close_browser(Controller, closing)
                ELSE [c |-> Controller, raised |-> TRUE]
       IN  /\ controller_becomes(r.c)
           /\ returned' = [op |-> "close_browser", ok |-> ~r.raised,
                           error |-> IF r.raised THEN ErrException ELSE ErrNone,
                           message |-> <<>>, check |-> NoVerdict.error]
           /\ UNCHANGED <<pageVars, authVars, schedVars, flowVars, paceVars, promptVars,
                          storeVars>>

\* clear_browser_data() called in thread t: the session is closed, then
\* shutil.rmtree removes the profile directory unless it raises
clear_browser_data ==
    \E t \in {MainThread, 1}, rmtree_raises \in BOOLEAN,
       closing \in {"ok", "close_raises", "close_raises_closed", "stop_raises"} :
       LET r == IF _run_async(t) THEN _close_browser(Controller, closing)
                ELSE [c |-> Controller, raised |-> TRUE]
           raised == r.raised \/ rmtree_raises
       IN  /\ controller_becomes(
                 IF raised THEN r.c
                 ELSE [r.c EXCEPT !.lock_files = [n \in DOMAIN @ |-> "absent"]])
           /\ returned' = [op |-> "clear_browser_data", ok |-> ~raised,
                           error |-> IF raised THEN ErrException ELSE ErrNone,
                           message |-> <<>>, check |-> NoVerdict.error]
           /\ UNCHANGED <<pageVars, authVars, schedVars, flowVars, paceVars, promptVars,
                          storeVars>>

\* the application after construction, the user logged in to the site
Init ==
    /\ page = PageLoggedIn
    /\ start_post_button = TRUE
    /\ checks = <<>>
    /\ is_initialized = FALSE
    /\ InitSched
    /\ config \in [posting_interval_minutes : Intervals, history : {<<>>}, errors : {<<>>}]
    /\ InitFlowVars
    /\ media_files = 0
    /\ interval = NoInterval
    /\ prompt = PromptStart
    /\ SessionStart
    /\ config_file = Saved(config)

\* the application after construction, the site in any of its states
InitUi ==
    /\ page \in SamplePages
    /\ start_post_button \in BOOLEAN
    /\ checks = <<>>
    /\ is_initialized = FALSE
    /\ InitSched
    /\ config \in [posting_interval_minutes : Intervals, history : {<<>>}, errors : {<<>>}]
    /\ InitFlowVars
    /\ media_files = 0
    /\ interval = NoInterval
    /\ prompt = PromptStart
    /\ SessionStart
    /\ config_file = Saved(config)

Next ==
    \/ add_post
    \/ start
    \/ stop
    \/ stop_join
    \/ clear_queue
    \/ \E w \in Workers : _scheduler_loop(w)
    \/ \E w \in Workers : _process_post(w)
    \/ clock_tick

\* a controller just constructed, on a profile directory in which an earlier
\* run of the browser may have left lock artifacts
InitSession ==
    /\ page = PageLoggedIn
    /\ start_post_button = TRUE
    /\ checks = <<>>
    /\ is_initialized = FALSE
    /\ InitSched
    /\ config = defaults
    /\ config_file = Saved(config)
    /\ InitFlowVars
    /\ media_files = 0
    /\ interval = NoInterval
    /\ prompt = PromptStart
    /\ browser_context = 0
    /\ page_handle = 0
    /\ playwright = FALSE
    /\ live_contexts = {}
    /\ launches = 0
    /\ lock_files \in [1..Len(LockNames) -> {"absent", "file", "symlink"}]
    /\ at_launch = {}
    /\ returned = NoCall

NextSession ==
    \/ call_check_login_status
    \/ call_prompt_login
    \/ call_post_to_linkedin
    \/ close_browser
    \/ clear_browser_data
    \/ page_changes

\* the application after construction: the file the Config found was
\* missing, unparsable, or a document with some of the keys
InitConfig ==
    /\ page = PageLoggedIn
    /\ start_post_button = TRUE
    /\ checks = <<>>
    /\ is_initialized = FALSE
    /\ InitSched
    /\ \E file \in {NoFile, [NoFile EXCEPT !.state = "corrupt"]} \cup
                    [state : {"ok"}, keys : SUBSET ConfigKeys,
                     text : {json_dump(cfg) :
                                cfg \in [posting_interval_minutes : Intervals,
                                         history : {<<>>, <<[text |-> 5, status |-> "Posted"]>>},
                                         errors : {<<>>}]}],
          written \in SaveOutcomes :
          /\ config = load_config(file)
          /\ config_file = IF file.state = "missing"
                           THEN save_config(config, file, written) ELSE file
    /\ InitFlowVars
    /\ media_files = 0
    /\ interval = NoInterval
    /\ prompt = PromptStart
    /\ SessionStart

NextConfig ==
    \/ Config_new
    \/ \E op \in {"set", "add_to_history", "add_error", "clear_history", "clear_errors"} :
          Config_call(op)

NextUi ==
    \/ add_post
    \/ start
    \/ stop
    \/ stop_join
    \/ \E w \in Workers : _scheduler_loop(w)
    \/ \E w \in Workers : _process_post(w)
    \/ ui_call
    \/ ui_return
    \/ ui_post_to_linkedin
    \/ page_changes

\* SpecGate: every call of post_to_linkedin, from the pacing thread and from
\* the UI thread, while the site changes its page
NextGate ==
    \/ add_post
    \/ \E w \in Workers : _scheduler_loop(w)
    \/ \E w \in Workers : _process_post(w)
    \/ ui_call
    \/ ui_return
    \/ ui_post_to_linkedin
    \/ page_changes

\* ------------------------------------------------------------------------
\* SpecAuth: the authentication check applied to every page state
\* ------------------------------------------------------------------------

InitAuth ==
    /\ page \in Pages
    /\ start_post_button = TRUE
    /\ checks = <<>>
    /\ is_initialized = TRUE
    /\ InitSched
    /\ config = [posting_interval_minutes |-> 60, history |-> <<>>, errors |-> <<>>]
    /\ InitFlowVars
    /\ media_files = 0
    /\ interval = NoInterval
    /\ prompt = PromptStart
    /\ SessionStart
    /\ config_file = Saved(config)

\* one call of _check_login_status; checks keeps the last two calls made
\* since the page last changed
AuthCheck ==
    \E delay \in _wait_for_human_delay(2000, 3000) :
        LET c == [verdict |-> _check_login_status(page, delay), delay |-> delay]
        IN  /\ checks' = IF Len(checks) < 2 THEN Append(checks, c)
                         ELSE <<checks[2], c>>
            /\ UNCHANGED <<pageVars, ctrlVars, schedVars, flowVars, paceVars, promptVars,
                   sessionVars, storeVars>>

\* the site changes what it shows: one signal at a time
PageToggleNav ==
    \E k \in NavKeys :
        /\ page' = [page EXCEPT !.navCheck[k] = ~@]
        /\ checks' = <<>>
        /\ UNCHANGED <<start_post_button, ctrlVars, schedVars, flowVars, paceVars, promptVars,
                   sessionVars, storeVars>>

PageSetUrl ==
    \E u \in Urls \ {page.url} :
        /\ page' = [page EXCEPT !.url = u]
        /\ checks' = <<>>
        /\ UNCHANGED <<start_post_button, ctrlVars, schedVars, flowVars, paceVars, promptVars,
                   sessionVars, storeVars>>

PageToggleSignal ==
    /\ \/ page' = [page EXCEPT !.hasLoginForm = ~@]
       \/ page' = [page EXCEPT !.hasWelcomeText = ~@]
       \/ page' = [page EXCEPT !.securityElement = ~@]
       \/ page' = [page EXCEPT !.loads = ~@]
       \/ \E ph \in (0..MaxPhrase) \ {page.phrase} : page' = [page EXCEPT !.phrase = ph]
    /\ checks' = <<>>
    /\ UNCHANGED <<start_post_button, ctrlVars, schedVars, flowVars, paceVars, promptVars,
                   sessionVars, storeVars>>

NextAuth ==
    \/ AuthCheck
    \/ PageToggleNav
    \/ PageSetUrl
    \/ PageToggleSignal

\* ------------------------------------------------------------------------
\* SpecPace: the due interval for every base interval and jitter factor
\* ------------------------------------------------------------------------

\* jitter factors in thousandths, in steps of 0.05
PaceJitters == {900, 950, 1000, 1050, 1100}

\* _get_next_post_time with last_post_time set, in thousandths of a minute
_get_next_post_time(last, post_interval_minutes, variation_factor) ==
    last * 1000 + actual_interval_minutes(post_interval_minutes, variation_factor)

\* the pacing loop computes the due interval of a tick
pace_loop ==
    /\ \E f \in PaceJitters :
          interval' = [by |-> "_scheduler_loop", factor |-> f,
                       minutes |-> actual_interval_minutes(
                                       Config_get(config, "posting_interval_minutes"), f),
                       next_post_time |-> 0]
    /\ UNCHANGED <<pageVars, authVars, ctrlVars, schedVars, flowVars, promptVars,
                   sessionVars, storeVars>>

\* _update_status asks for the next post time
pace_next_post_time ==
    /\ last_post_time # NoTime
    /\ \E f \in PaceJitters :
          LET base == Config_get(config, "posting_interval_minutes") IN
          interval' = [by |-> "_get_next_post_time", factor |-> f,
                       minutes |-> actual_interval_minutes(base, f),
                       next_post_time |-> _get_next_post_time(last_post_time, base, f)]
    /\ UNCHANGED <<pageVars, authVars, ctrlVars, schedVars, flowVars, promptVars,
                   sessionVars, storeVars>>

InitPace ==
    /\ page = PageLoggedIn
    /\ start_post_button = TRUE
    /\ checks = <<>>
    /\ is_initialized = FALSE
    /\ posts_queue = <<>>
    /\ unfinished_tasks = 0
    /\ stop_event = FALSE
    /\ is_running = FALSE
    /\ last_post_time \in 0..1
    /\ schedule_thread = 0
    /\ thread = [w \in Workers |-> "unborn"]
    /\ local = [w \in Workers |-> [post |-> NoPost, current_time |-> NoTime]]
    /\ post_data = [i \in PostIds |->
                       [text |-> 0, status |-> "none", error |-> "", result |-> "",
                        posted |-> 0]]
    /\ gate = NoVerdict
    /\ ui = [pc |-> "idle", op |-> ""]
    /\ ret = FALSE
    /\ now = 0
    /\ config \in [posting_interval_minutes : 1..MaxBase, history : {<<>>}, errors : {<<>>}]
    /\ InitFlowVars
    /\ media_files = 0
    /\ interval = NoInterval
    /\ prompt = PromptStart
    /\ SessionStart
    /\ config_file = Saved(config)

NextPace ==
    \/ pace_loop
    \/ pace_next_post_time

\* ------------------------------------------------------------------------
\* SpecFlow: one run of _post_to_linkedin
\* ------------------------------------------------------------------------

InitFlow ==
    /\ page = PageLoggedIn
    /\ start_post_button \in BOOLEAN
    /\ checks = <<>>
    /\ is_initialized = TRUE
    /\ InitSched
    /\ config = [posting_interval_minutes |-> 60, history |-> <<>>, errors |-> <<>>]
    /\ InitFlowVars
    /\ media_files \in 0..MaxMedia
    /\ interval = NoInterval
    /\ prompt = PromptStart
    /\ SessionStart
    /\ config_file = Saved(config)

NextFlow ==
    \/ flow_step
    \/ flow_attempt
    \/ flow_chain_end

\* ------------------------------------------------------------------------
\* SpecPrompt: one run of _prompt_login while the site changes its page
\* ------------------------------------------------------------------------

InitPrompt ==
    /\ page \in SamplePages
    /\ start_post_button = TRUE
    /\ checks = <<>>
    /\ is_initialized = TRUE
    /\ InitSched
    /\ config = [posting_interval_minutes |-> 60, history |-> <<>>, errors |-> <<>>]
    /\ InitFlowVars
    /\ media_files = 0
    /\ interval = NoInterval
    /\ prompt = PromptStart
    /\ SessionStart
    /\ config_file = Saved(config)

NextPrompt ==
    \/ prompt_check
    \/ prompt_goto_login
    \/ prompt_security
    \/ prompt_poll
    \/ page_changes

\* ------------------------------------------------------------------------
\* SpecSched: the scheduler with a controller whose post_to_linkedin call
\* returns any of its results
\* ------------------------------------------------------------------------

NextSched ==
    \/ add_post
    \/ \E w \in Workers : _scheduler_loop(w)
    \/ \E w \in Workers : post_to_linkedin_returns(w)
    \/ clock_tick

\* ------------------------------------------------------------------------
\* SpecQueue: two pacing threads take posts from the queue. The scheduler is
\* in the state it is in after a first post was taken by thread 1, stop()
\* gave up its join while the post was processed, start() created thread 2 and
\* the post failed (the controller call raises in a pacing thread); the
\* dictionary of that post is not among the posts followed here
\* ------------------------------------------------------------------------

InitQueue ==
    /\ page = PageLoggedIn
    /\ start_post_button = TRUE
    /\ checks = <<>>
    /\ is_initialized = FALSE
    /\ posts_queue = <<>>
    /\ unfinished_tasks = 0
    /\ stop_event = FALSE
    /\ is_running = TRUE
    /\ last_post_time = 0
    /\ schedule_thread = 2
    /\ thread = [w \in Workers |-> IF w = 1 THEN "wait"
                                  ELSE IF w = 2 THEN "sleep" ELSE "unborn"]
    /\ local = [w \in Workers |-> [post |-> NoPost, current_time |-> NoTime]]
    /\ post_data = [i \in PostIds |->
                       [text |-> 0, status |-> "none", error |-> "", result |-> "",
                        posted |-> 0]]
    /\ gate = NoVerdict
    /\ ui = [pc |-> "idle", op |-> ""]
    /\ ret = TRUE
    /\ now = 0
    /\ \E minutes \in Intervals :
          config = add_error([posting_interval_minutes |-> minutes,
                              history |-> <<>>, errors |-> <<>>],
                             [error |-> MsgPostError, post_text |-> 5])
    /\ InitFlowVars
    /\ media_files = 0
    /\ interval = NoInterval
    /\ prompt = PromptStart
    /\ SessionStart
    /\ config_file = Saved(config)

NextQueue ==
    \/ add_post
    \/ \E w \in Workers : get_nowait(w)
    \/ \E w \in Workers : _process_post_begins(w)
    \/ \E w \in Workers : _process_post(w)
    \/ clock_tick

\* ------------------------------------------------------------------------
\* SpecLive: the scheduler while it stays running: no stop() and no
\* clear_queue(), time passes, the pacing thread is scheduled and every
\* controller call returns
\* ------------------------------------------------------------------------

NextLive ==
    \/ add_post
    \/ \E w \in Workers : _scheduler_loop(w)
    \/ \E w \in Workers : _process_post(w)
    \/ time_passes

vars ==
    <<pageVars, authVars, ctrlVars, schedVars, flowVars, paceVars, promptVars,
      sessionVars, storeVars>>

Spec == Init /\ [][Next]_vars

SpecUi == InitUi /\ [][NextUi]_vars

SpecGate == InitUi /\ [][NextGate]_vars

SpecAuth == InitAuth /\ [][NextAuth]_vars

SpecFlow == InitFlow /\ [][NextFlow]_vars

SpecPace == InitPace /\ [][NextPace]_vars

SpecPrompt == InitPrompt /\ [][NextPrompt]_vars

SpecSched == Init /\ [][NextSched]_vars

SpecSession == InitSession /\ [][NextSession]_vars

SpecConfig == InitConfig /\ [][NextConfig]_vars

SpecQueue == InitQueue /\ [][NextQueue]_vars

\* _prompt_login under the scheduling of its event loop: every await of the
\* coroutine (the navigations with their timeouts, the sleeps) returns, so a
\* step of the flow that is possible is taken
prompt_step == prompt_check \/ prompt_goto_login \/ prompt_security \/ prompt_poll

SpecPromptFair == InitPrompt /\ [][NextPrompt]_vars /\ WF_vars(prompt_step)

\* the pacing thread is a daemon thread the interpreter keeps scheduling: the
\* sleeps of its loop (2 s, 10 s, 30 s) end, and so do the controller calls of
\* _process_post, each within its timeouts
SpecLive ==
    /\ Init
    /\ [][NextLive]_vars
    /\ WF_vars(time_passes)
    /\ \A w \in Workers : WF_vars(_scheduler_loop(w))
    /\ \A w \in Workers : WF_vars(_process_post(w))

\* ------------------------------------------------------------------------
\* Claims
\* ------------------------------------------------------------------------

\* C1: only one post is ever in flight: in no state are two posts between
\* their dequeue (get_nowait) and the end of _process_post, whatever the
\* interleaving of add_post, start, stop and the pacing loop.
C1_OnePostInFlight ==
    Cardinality({w \in Workers : thread[w] = "in_post"}) <= 1

\* C2: the browser session is driven by one execution context at a time:
\* while a pacing thread is inside the controller calls of _process_post, the
\* UI thread is not inside a controller call.
C2_OneControllerCaller ==
    ~(ui.pc = "ctrl" /\ \E w \in Workers : thread[w] = "in_post")

\* C3: challenge detection has priority: every check of a page that carries a
\* challenge marker or a security phrase returns the security-challenge
\* verdict and not LoggedIn, whatever the other signals are.
C3_ChallengePriority ==
    \A i \in 1..Len(checks) :
        (page.securityElement \/ page.phrase # 0) =>
            /\ ~checks[i].verdict.isLoggedIn
            /\ page.loads => checks[i].verdict.error = ErrSecurityChallenge

\* C3 witness: a challenge page that also shows three navigation markers, a
\* home URL, a greeting and no login form has been checked.
C3_Witness ==
    /\ Len(checks) >= 1
    /\ page.loads
    /\ page.securityElement \/ page.phrase # 0
    /\ Cardinality({k \in NavKeys : page.navCheck[k]}) >= 3
    /\ page.url = UrlHome
    /\ page.hasWelcomeText
    /\ ~page.hasLoginForm
    /\ checks[1].verdict.error = ErrSecurityChallenge

\* C4 as stated: with no challenge, the verdict is LoggedIn iff (three or more
\* of the profile and primary-navigation markers are true and the URL is
\* neither login nor checkpoint and there is no login form) or (home URL and
\* greeting and no login form).
C4_Original ==
    \A i \in 1..Len(checks) :
        (page.loads /\ ~page.securityElement /\ page.phrase = 0) =>
            (checks[i].verdict.isLoggedIn <=>
                \/ /\ Cardinality({k \in NavChromeKeys : page.navCheck[k]}) >= 3
                   /\ page.url \notin {UrlLogin, UrlCheckpoint, UrlCheckpointLogin}
                   /\ ~page.hasLoginForm
                \/ /\ page.url \in {UrlHome, UrlFeed}
                   /\ page.hasWelcomeText
                   /\ ~page.hasLoginForm)

\* C4 amended: with no challenge, the verdict is LoggedIn iff (three or more
\* of the eight navCheck signals, the feed and post-box markers included, are
\* true and the URL is neither login nor checkpoint and there is no login
\* form) or (home URL and greeting and no login form); otherwise it is
\* LoggedOut.
C4_LoggedInIff ==
    \A i \in 1..Len(checks) :
        (page.loads /\ ~page.securityElement /\ page.phrase = 0) =>
            /\ checks[i].verdict.error = ErrNone
            /\ checks[i].verdict.isLoggedIn <=>
                \/ /\ Cardinality({k \in NavKeys : page.navCheck[k]}) >= 3
                   /\ page.url \notin {UrlLogin, UrlCheckpoint, UrlCheckpointLogin}
                   /\ ~page.hasLoginForm
                \/ /\ page.url \in {UrlHome, UrlFeed}
                   /\ page.hasWelcomeText
                   /\ ~page.hasLoginForm

\* C4 witness: a page without challenge whose only true signals are one
\* profile marker, the feed marker and the post-box marker was found LoggedIn.
C4_Witness ==
    /\ Len(checks) >= 1
    /\ page.loads /\ ~page.securityElement /\ page.phrase = 0
    /\ {k \in NavKeys : page.navCheck[k]} = {"hasProfilePhoto", "hasFeed", "hasPostBox"}
    /\ page.url = UrlProfile
    /\ ~page.hasWelcomeText
    /\ checks[1].verdict.isLoggedIn

C6_FallbackChain ==
    chain # "" =>
        /\ \A i \in 1..Len(attempts) : attempts[i] = i
        /\ Len(attempts) <= ChainLength(chain)
        /\ strategyUsed # 0 => (strategyUsed = Len(attempts) /\ outcome = "hit")
        /\ (outcome = "hit") => (strategyUsed # 0 /\ fpc # "chain")
        /\ (outcome \in {"miss", "throw"} /\ Len(attempts) < ChainLength(chain)) =>
               (fpc = "chain" /\ reported = "")
        /\ (outcome \in {"miss", "throw"} /\ Len(attempts) = ChainLength(chain)) =>
               (fpc # "chain" /\ reported = "not_found" /\ strategyUsed = 0)
        /\ reported = "not_found" => Len(attempts) = ChainLength(chain)

\* C6 witness: the submit chain went on after a selector that raised and a
\* page script that found nothing were tried last, made all its attempts and
\* reported not-found.
C6_Witness ==
    /\ chain = "submit"
    /\ fpc = "chain_end"
    /\ Len(attempts) = ChainLength("submit")
    /\ outcome = "miss"
    /\ reported = "not_found"

\* C7 as stated: for every base interval of at least one minute and every
\* jitter factor in [0.9, 1.1] the due interval lies within
\* [0.9 * base, 1.1 * base] and is never below 5 minutes.
C7_Original ==
    interval.by # "" =>
        LET base == config.posting_interval_minutes IN
        /\ 900 * base <= interval.minutes
        /\ interval.minutes <= 1100 * base
        /\ interval.minutes >= MinIntervalMinutes * 1000

\* C7 amended: for every base interval of at least one minute and every
\* jitter factor in [0.9, 1.1] the due interval is never below 5 minutes and
\* lies within [max(5, 0.9 * base), max(5, 1.1 * base)]: within
\* [0.9 * base, 1.1 * base] when the base is at least 5 minutes.
C7_FlooredInterval ==
    interval.by # "" =>
        LET base == config.posting_interval_minutes
            floor == MinIntervalMinutes * 1000
        IN
        /\ interval.minutes >= floor
        /\ interval.minutes >= 900 * base
        /\ interval.minutes <= (IF 1100 * base >= floor THEN 1100 * base ELSE floor)
        /\ base >= MinIntervalMinutes =>
               (900 * base <= interval.minutes /\ interval.minutes <= 1100 * base)
        /\ interval.by = "_get_next_post_time" =>
               interval.next_post_time = last_post_time * 1000 + interval.minutes

\* C7 witness: the pacing loop computed the interval for a base of one minute
\* and the largest jitter factor: the floor of 5 minutes, above 1.1 * base.
C7_Witness ==
    /\ interval.by = "_scheduler_loop"
    /\ config.posting_interval_minutes = 1
    /\ interval.factor = 1100
    /\ interval.minutes = MinIntervalMinutes * 1000

\* C8: add_post on a stopped scheduler leaves it running with one more pacing
\* thread; on a running scheduler it changes neither the run state nor the
\* threads; in both cases it returns True and the queue grows by one.
C8_AddPost ==
    [][add_post =>
          /\ is_running'
          /\ ret' = TRUE
          /\ Len(posts_queue') = Len(posts_queue) + 1
          /\ IF is_running
             THEN thread' = thread
             ELSE Cardinality({w \in Workers : thread'[w] # "unborn"}) =
                     Cardinality({w \in Workers : thread[w] # "unborn"}) + 1]_vars

\* C8 witness: two posts were added, the second to the running scheduler,
\* and one pacing thread exists.
C8_Witness ==
    /\ is_running
    /\ ret = TRUE
    /\ Len(posts_queue) = 2
    /\ Cardinality({w \in Workers : thread[w] # "unborn"}) = 1

\* C9: when a queued post with text is processed and the login gate does not
\* return LoggedIn, the post ends in the error status with the
\* not-authenticated reason, no history entry is appended and exactly one
\* error entry is appended.
C9_GateRefused ==
    [][\A w \in Workers :
          (_process_post(w) /\ ~gate'.isLoggedIn) =>
              /\ post_data'[local[w].post].status = "error"
              /\ post_data'[local[w].post].error = MsgNotLoggedIn
              /\ config'.history = config.history
              /\ Len(config'.errors) = Len(config.errors) + 1]_vars

\* C10: when the session is logged in and the feed offers no way to open the
\* composer, the processed post ends in the error status with the
\* composer-not-found reason, the pacing loop keeps running and
\* last_post_time has the same value after the tick as before it.
C10_ComposerNotFound ==
    [][\A w \in Workers :
          (/\ _process_post(w)
           /\ page.loads
           /\ ~page.securityElement /\ page.phrase = 0
           /\ Cardinality({k \in NavKeys : page.navCheck[k]}) >= 3
           /\ page.url = UrlFeed /\ ~page.hasLoginForm
           /\ ~start_post_button) =>
              /\ post_data'[local[w].post].status = "error"
              /\ post_data'[local[w].post].error = MsgComposerNotFound
              /\ thread'[w] \in {"wait", "backoff"}
              /\ is_running' = is_running
              /\ last_post_time' = last_post_time]_vars

\* C11: when a post is processed and post_to_linkedin reports success,
\* exactly one history entry is appended to the persisted history and no
\* error entry is appended.
C11_HistoryOnSuccess ==
    [][\A w \in Workers :
          (/\ post_to_linkedin_returns(w)
           /\ post_data'[local[w].post].status = "completed") =>
              /\ Len(config'.history) = Len(config.history) + 1
              /\ config'.errors = config.errors]_vars

\* C12: when a post is processed successfully, last_post_time is set to the
\* time of the tick that processed it, and the queue is exactly one shorter
\* than before the tick: the dequeue takes one post off the queue and the
\* rest of the tick leaves the queue as it is.
C12_SuccessBookkeeping ==
    [][\A w \in Workers :
          /\ (_scheduler_loop(w) /\ thread'[w] = "in_post") =>
                /\ Len(posts_queue') = Len(posts_queue) - 1
                /\ local'[w].post = Head(posts_queue)
                /\ local'[w].current_time = now
          /\ (/\ post_to_linkedin_returns(w)
              /\ post_data'[local[w].post].status = "completed") =>
                /\ last_post_time' = local[w].current_time
                /\ posts_queue' = posts_queue
                /\ \A i \in 1..Len(posts_queue') : posts_queue'[i] # local[w].post]_vars

\* C12 witness: the first post was dequeued at clock value 5 and completed,
\* last_post_time is 5 and the second post is still queued.
C12_Witness ==
    /\ post_data[1].status = "completed"
    /\ last_post_time = MinIntervalMinutes
    /\ posts_queue = <<2>>
    /\ \A w \in Workers : thread[w] # "in_post"

\* C13: every post attempt that ends in failure is recorded: whenever a step
\* of the pacing thread leaves a post with status 'error' (empty text, not
\* authenticated, composer failure, exception), exactly one error entry has
\* been appended to the error log of the configuration in that step.
C13_FailureRecorded ==
    [][\A i \in PostIds :
          (post_data[i].status # "error" /\ post_data'[i].status = "error") =>
              Len(config'.errors) = Len(config.errors) + 1]_vars

\* C14: the posting flow _post_to_linkedin is run only after the login check
\* made in the same post_to_linkedin call returned logged in: after every
\* call, a result of the flow exists only if the gate of that call said
\* logged in; when the gate said logged out or challenged, or the check
\* failed, no flow was run.
C14_FlowOnlyAfterGate ==
    /\ fresult # NoResult => gate.isLoggedIn
    /\ (gate = NoVerdict \/ ~gate.isLoggedIn) => fresult = NoResult

\* C14 witness: the UI thread's post_to_linkedin call found the session
\* logged in and the flow posted.
C14_Witness ==
    /\ gate.isLoggedIn
    /\ fresult = Result(TRUE, MsgPosted)
    /\ ui.pc = "idle"

\* C15: no automatic retry: a post the scheduler dequeued is processed at
\* most once. post_to_linkedin is called at most once for it, a post is on
\* the queue only in status 'queued' and at most once, the pacing threads
\* never add to the queue, and a post that was completed or failed stays out
\* of the queue with its status.
C15_NoRetry ==
    /\ \A i \in PostIds : post_data[i].posted <= 1
    /\ \A i \in PostIds :
          post_data[i].status \in {"completed", "error"} =>
              /\ \A k \in 1..Len(posts_queue) : posts_queue[k] # i
              /\ i \notin InFlight
    /\ \A k \in 1..Len(posts_queue) :
          /\ post_data[posts_queue[k]].status = "queued"
          /\ \A j \in 1..Len(posts_queue) : posts_queue[j] = posts_queue[k] => j = k
    /\ \A i \in PostIds :
          Cardinality({w \in Workers : thread[w] = "in_post" /\ local[w].post = i}) <= 1

\* C15 witness: the first post failed after one call of post_to_linkedin, and
\* the pacing thread has run a later tick with the second post still queued.
C15_Witness ==
    /\ post_data[1].status = "error"
    /\ post_data[1].posted = 1
    /\ posts_queue = <<2>>
    /\ \E w \in Workers : thread[w] = "wait"
    /\ last_post_time = 0
    /\ now = MinIntervalMinutes

\* C16: a status snapshot is delivered to the observer after every tick of
\* the pacing loop, whatever the tick did: every tick (nothing due, empty
\* queue, a post processed, an exception) ends at the 10 s wait, which the
\* loop reaches only through its _update_status call.
C16_SnapshotEveryTick ==
    [][\A w \in Workers :
          (\/ _scheduler_loop(w) /\ thread'[w] \notin {"dead", "in_post"}
           \/ _process_post(w)) =>
              thread'[w] = "wait"]_vars

C18_CancelledWorkerStops ==
    [][\A w \in Workers :
          (/\ thread[w] \notin {"unborn", "dead"}
           /\ w # schedule_thread \/ ~is_running
           /\ _scheduler_loop(w)) =>
              posts_queue' = posts_queue]_vars

\* C19: start() is idempotent: called while running it returns False, spawns
\* no thread and changes no scheduler state; called while stopped it returns
\* True, spawns exactly one pacing thread, which becomes schedule_thread, and
\* sets is_running. stop() called while stopped returns False and changes
\* nothing.
C19_StartStopIdempotent ==
    [][/\ (start /\ is_running) =>
             /\ ret' = FALSE
             /\ thread' = thread
             /\ UNCHANGED <<posts_queue, unfinished_tasks, stop_event, is_running,
                            last_post_time, schedule_thread, local, post_data, config>>
       /\ (start /\ ~is_running) =>
             /\ ret' = TRUE
             /\ is_running'
             /\ Cardinality({w \in Workers : thread'[w] # thread[w]}) = 1
             /\ thread[schedule_thread'] = "unborn"
             /\ thread'[schedule_thread'] = "sleep"
       /\ (stop /\ ~is_running) =>
             /\ ret' = FALSE
             /\ ui' = ui
             /\ thread' = thread
             /\ UNCHANGED <<posts_queue, unfinished_tasks, stop_event, is_running,
                            last_post_time, schedule_thread, local, post_data, config>>]_vars

\* C19 witness: start() was called on the running scheduler and returned
\* False; there is still one pacing thread.
C19_Witness ==
    /\ is_running
    /\ ret = FALSE
    /\ ui.pc = "idle"
    /\ Cardinality({w \in Workers : thread[w] # "unborn"}) = 1

\* C20: in the login-prompt flow a security challenge is a continuable
\* state: once the login page has been opened, the flow never returns
\* failure because of a challenge; it returns failure only after the last
\* poll of the wait budget (or when an exception was raised), and success as
\* soon as a check yields logged in.
C20_ChallengeContinuable ==
    (prompt.pc = "done" /\ ~prompt.result.success) =>
        /\ prompt.result.error # ErrSecurityChallenge
        /\ prompt.result.error = ErrNone => prompt.polls = max_polls

\* C21: prompt_login always terminates. It never makes more than
\* max_polls = 180/5 = 36 polls; a check that yields logged in ends it at
\* once with success (the first check does so without opening the login
\* page and without a poll); every other end is a failure result, given
\* after at most 36 polls; and it does end, with a result and not with an
\* exception.
C21_PromptTerminates ==
    /\ [](/\ prompt.polls <= max_polls
          /\ prompt.pc = "done" =>
                /\ prompt.result.message # <<>>
                /\ prompt.result.message = <<MsgAlreadyLoggedIn>> => prompt.polls = 0
                /\ prompt.result.success <=>
                      prompt.result.message \in {<<MsgAlreadyLoggedIn>>, <<MsgLoginOk>>})
    /\ [][(/\ prompt.pc \in {"check", "poll"}
           /\ prompt' # prompt
           /\ \A delay \in _wait_for_human_delay(2000, 3000) :
                  _check_login_status(page, delay).isLoggedIn)
              => /\ prompt'.pc = "done"
                 /\ prompt'.result.success
                 /\ prompt.pc = "check" => prompt'.result.message = <<MsgAlreadyLoggedIn>>]_vars
    /\ <>(prompt.pc = "done")

\* C21 witness: the user never logged in, the flow made its 36 polls and
\* returned the timeout result.
C21_Witness ==
    /\ prompt.pc = "done"
    /\ prompt.polls = max_polls
    /\ ~prompt.result.success
    /\ prompt.result.message = <<MsgLoginTimeout>>

\* C22: a controller has at most one live browser context, and its page,
\* after any sequence of check_login_status, prompt_login, post_to_linkedin,
\* close_browser and clear_browser_data; a call that initializes while the
\* controller holds a context launches nothing and leaves the context and
\* the page handle as they are.
C22_OneSession ==
    /\ [](/\ Cardinality(live_contexts) <= 1
          /\ live_contexts \subseteq {browser_context}
          /\ browser_context # 0 => page_handle = browser_context)
    /\ [][(/\ browser_context # 0
           /\ returned'.op \in {"check_login_status", "prompt_login", "post_to_linkedin"})
              => /\ launches' = launches
                 /\ live_contexts' = live_contexts
                 /\ browser_context' = browser_context
                 /\ page_handle' = page_handle]_vars

\* C22 witness: the second session of the controller is live; its startup
\* raised after the launch, so that is_initialized stayed false and the
\* check made next called _init_browser with the session live.
C22_Witness ==
    /\ returned.op = "check_login_status"
    /\ returned.ok
    /\ ~is_initialized
    /\ browser_context \in live_contexts
    /\ launches = MaxLaunches

\* C23: after close_browser() has returned, with success or with an error
\* result, the controller holds no browser context and no page and
\* is_initialized is false.
C23_ClosedAfterClose ==
    returned.op = "close_browser" =>
        /\ browser_context = 0
        /\ page_handle = 0
        /\ ~is_initialized

\* C24: at the moment launch_persistent_context is invoked, none of the lock
\* artifacts SingletonLock, SingletonCookie, SingletonSocket exists in the
\* profile directory.
C24_NoLockAtLaunch ==
    at_launch = {}

\* C25: a failure of the stealth-script injection does not stop the
\* startup: a controller that holds the context and the page of a launch is
\* initialized.
C25_StealthBestEffort ==
    browser_context # 0 => is_initialized

\* C26: when the authentication check made by check_login_status or by the
\* gate of post_to_linkedin detects a security challenge, the result the
\* call returns carries the security-challenge reason.
C26_ChallengeSurfaced ==
    (/\ returned.op \in {"check_login_status", "post_to_linkedin"}
     /\ returned.check = ErrSecurityChallenge)
        => returned.error = ErrSecurityChallenge

C29_PacedDequeues ==
    \A w1, w2 \in Workers :
       (/\ w1 # w2
        /\ local[w1].post # NoPost
        /\ local[w2].post # NoPost
        /\ local[w1].current_time <= local[w2].current_time)
          => local[w2].current_time - local[w1].current_time > MinIntervalMinutes

\* C30: with media files, no step of the media upload (the file input, the
\* upload confirmation, the screenshot, the Cancel check, the Escape that
\* dismisses dialogs, the Escape of the except clause of the upload) ends the
\* post with a failure result.
C30_MediaNonFatal ==
    [][(/\ media_files > 0
        /\ fpc = "step"
        /\ fstep \in {"file_input", "upload_indicator", "has_images", "screenshot_upload",
                      "cancel_check", "dismiss_escape", "media_escape"})
          => ~(fpc' = "done" /\ ~fresult'.success)]_vars

\* C31: once the submit affordance has been activated, _post_to_linkedin
\* returns success whether or not a success marker appears on the page, and
\* whatever happens while the lingering dialogs are closed.
C31_TimeoutIsSuccess ==
    (/\ chain = "submit"
     /\ strategyUsed # 0
     /\ fpc = "done") => fresult = Result(TRUE, MsgPosted)

\* C31 witness: the submit click hit, no success marker appeared, the page
\* script that looks for lingering dialogs raised, and the run returned
\* success.
C31_Witness ==
    /\ chain = "submit"
    /\ strategyUsed # 0
    /\ fpc = "done"
    /\ ~success_marker
    /\ ran[Len(ran)] = [name |-> "lingering_dialogs", ok |-> FALSE]
    /\ fresult.success

\* C32: no step of the flow that produces a diagnostic artifact (the debug
\* directory, a screenshot, the dump of the page structure) changes the
\* result: when the capture raises the run does not end there with the
\* result of the except clause of the flow.
C32_CaptureNeverAlters ==
    [][(/\ fpc = "step"
        /\ fstep \in CaptureSteps)
          => ~(fpc' = "done" /\ fresult' = Result(FALSE, MsgPostError))]_vars

\* C33: the run goes through its stages in the order feed, composer opened,
\* composer surface, text input, text typed, media, submit, confirmation, each
\* at most once and each only after the stage before it succeeded; after the
\* open-composer chain, the composer-surface wait or the text-input chain
\* failed, nothing but the diagnostic screenshot runs and the run returns that
\* stage's failure; the submit affordance is activated only in a run that
\* opened the composer and typed the text.
C33_ComposerOrder ==
    LET Ok(n) == \E i \in 1..Len(ran) : ran[i] = [name |-> n, ok |-> TRUE]
        Before(a, b) ==
            \A i \in 1..Len(ran) :
                ran[i].name = b =>
                    \E j \in 1..(i - 1) : ran[j] = [name |-> a, ok |-> TRUE]
        Reason(n) ==
            CASE n = "open_composer" -> MsgComposerNotFound
              [] n = "composer_surface" -> MsgComposerSurface
              [] n = "text_input" -> MsgTextInputNotFound
    IN
    /\ Cardinality({ran[i].name : i \in 1..Len(ran)}) = Len(ran)
    /\ Before("open_composer", "composer_surface")
    /\ Before("composer_surface", "text_input")
    /\ Before("text_input", "type_text")
    /\ Before("type_text", "media_button")
    /\ Before("type_text", "submit")
    /\ Before("submit", "wait_submitted")
    /\ (chain = "submit" /\ strategyUsed # 0) =>
           (/\ Ok("open_composer")
            /\ Ok("composer_surface")
            /\ Ok("text_input")
            /\ Ok("type_text"))
    /\ \A i \in 1..Len(ran) :
           (ran[i].name \in {"open_composer", "composer_surface", "text_input"}
            /\ ~ran[i].ok) =>
               /\ \A j \in (i + 1)..Len(ran) : ran[j].name = "screenshot_composer"
               /\ fpc = "done" \/ (fpc = "step" /\ fstep = "screenshot_composer")
               /\ fpc = "done" => fresult = Result(FALSE, Reason(ran[i].name))

\* C33 witness: the composer was opened, none of the three waits for its
\* surface succeeded, and the run returned that failure without looking for
\* the text input.
C33_Witness ==
    /\ fpc = "done"
    /\ \E i \in 1..Len(ran) : ran[i] = [name |-> "open_composer", ok |-> TRUE]
    /\ \E i \in 1..Len(ran) : ran[i] = [name |-> "composer_surface", ok |-> FALSE]
    /\ fresult = Result(FALSE, MsgComposerSurface)

\* C34: the feed navigation is attempted at most twice in a run: the retry
\* runs only after the first navigation failed, and only once; when the retry
\* fails too the run ends with the failure result of the except clause and no
\* further step, composer steps included, is executed.
C34_NavigationTwice ==
    LET Navs == {i \in 1..Len(ran) : ran[i].name \in {"goto_feed", "goto_feed_retry"}}
    IN
    /\ Cardinality(Navs) <= 2
    /\ Navs \subseteq {1, 2}
    /\ \A i \in Navs : ran[i].name = "goto_feed" <=> i = 1
    /\ 2 \in Navs => ~ran[1].ok
    /\ (Len(ran) >= 2 /\ ran[2] = [name |-> "goto_feed_retry", ok |-> FALSE]) =>
           /\ Len(ran) = 2
           /\ fpc = "done"
           /\ fresult = Result(FALSE, MsgPostError)
    /\ (Len(ran) >= 2 /\ ran[1].ok) => ran[2].name = "wait_feed"

\* C34 witness: both navigations failed and the run ended with the failure
\* result.
C34_Witness ==
    /\ ran = <<[name |-> "goto_feed", ok |-> FALSE],
               [name |-> "goto_feed_retry", ok |-> FALSE]>>
    /\ fpc = "done"
    /\ ~fresult.success

\* C35: posts start processing in the order add_post accepted them: while a
\* post that is still to be processed (it is in the queue or was taken from it
\* by a pacing thread) has the status queued, no post accepted after it has
\* left that status (the posts are numbered in the order of their add_post
\* calls); and post_to_linkedin is called at most once for a post.
C35_Fifo ==
    /\ \A a, b \in PostIds :
           (/\ a < b
            /\ post_data[a].status = "queued"
            /\ \/ \E k \in 1..Len(posts_queue) : posts_queue[k] = a
               \/ \E w \in Workers : local[w].post = a)
               => post_data[b].status \notin {"processing", "completed", "error"}
    /\ \A i \in PostIds : post_data[i].posted <= 1

C37_RunFlagMatchesWorker ==
    ui.pc = "idle" =>
        /\ ~is_running => Alive = {}
        /\ is_running => Cardinality(Alive) = 1

\* C38: is_initialized is true exactly when the controller holds a browser
\* context that is live and a page handle.
C38_SessionFlagsConsistent ==
    is_initialized <=>
        (/\ browser_context # 0
         /\ browser_context \in live_contexts
         /\ page_handle # 0)

\* C39: a pacing thread created by a restart (every thread but the first is
\* created by a start() or add_post() that follows a stop()) takes a post from
\* the queue only when more than the due interval, which is never below five
\* minutes, has elapsed since the last dequeue before it, be that dequeue
\* recorded in last_post_time or still under way in another thread.
C39_PacingSurvivesRestart ==
    [][\A w \in Workers :
          (w > 1 /\ thread[w] # "in_post" /\ thread'[w] = "in_post") =>
              /\ last_post_time # NoTime => now - last_post_time > MinIntervalMinutes
              /\ \A v \in Workers :
                     local[v].post # NoPost =>
                         now - local[v].current_time > MinIntervalMinutes]_vars

\* C40: while the scheduler stays running and clear_queue() is not called,
\* every post add_post() accepted is eventually processed: its status becomes
\* completed or error.
C40_Progress ==
    \A i \in PostIds :
        (post_data[i].status = "queued") ~> (post_data[i].status \in {"completed", "error"})

\* C40 witness: a second post, accepted while the first was being processed,
\* waited for the due interval and was processed too.
C40_Witness ==
    /\ post_data[1].posted = 1
    /\ post_data[2].posted = 1
    /\ post_data[1].status \in {"completed", "error"}
    /\ post_data[2].status \in {"completed", "error"}
    /\ posts_queue = <<>>
    /\ last_post_time # NoTime

====
